---- MODULE Spec2Model ----
(***************************************************************************)
(* OpenVibe gateway: the Hub's client server (hub/internal/server), the    *)
(* Redis replay buffer (hub/internal/buffer) and the Hub's tunnel manager  *)
(* (hub/internal/tunnel), as state machines.                               *)
(*                                                                         *)
(* Spec        the client server on top of the replay buffer: the client   *)
(*             handlers (prompt through an Agent, sync, ack), the buffer's *)
(*             Redis keys, the per-connection outbound queue.              *)
(* SpecBuffer  the replay buffer alone, called by concurrent goroutines.   *)
(* SpecTunnel  the tunnel manager: agent registration and displacement,    *)
(*             the reader's cleanup, Forward and its pending requests.     *)
(*                                                                         *)
(* Variables named h_* are history variables: they record what happened    *)
(* and are read by the properties only (and by the caps that keep the      *)
(* model finite), never by the program's own guards.                       *)
(***************************************************************************)
EXTENDS Integers, Sequences, FiniteSets, TLC

\* ------------------------------------------------------------------ bounds

\* Inputs fed in one run: agent frames, sync and ack frames, buffer calls.
MaxIn == 3
\* Capacity of a client's outbound queue (make(chan []byte, 256)), scaled down.
SendCap == 1
\* Capacity of a per-request response channel (make(chan *Message, 100)), scaled down.
RespCap == 2
\* RedisBuffer.maxCount (RedisConfig.MaxCount, default 100), scaled down.
MaxCount == 2

\* Sessions that have keys in the store; the client handlers of Spec use the first.
Sessions == {"ses_a", "ses_b"}
HubSessions == {"ses_a"}
\* Client connections of the Hub; in SpecBuffer, the goroutines calling the buffer.
Clients == {"c1", "c2"}
\* The request id a connection puts in its frames (client-supplied).
RequestIdOf(c) == IF c = "c1" THEN "r1" ELSE "r2"
\* msgId values a client puts in ack and sync frames.
AckIds == {0, 1}

\* A json.RawMessage that is nil (no payload) and the JSON text null.
Nil == "nil"
Null == "null"
\* Payloads an Agent puts in a stream frame.
AgentPayloads == {"H", "W"}

\* Agent connections, named in the order they are accepted; agent ids; Forward
\* calls, named in the order they start; request ids, the first call using r1.
Conns == {"k1", "k2", "k3"}
AgentIds == {"dev1"}
Calls == {"f1", "f2"}
RequestIds == {"r1", "r2"}
None == "none"
EarlierConns(k) == IF k = "k1" THEN {} ELSE IF k = "k2" THEN {"k1"} ELSE {"k1", "k2"}
\* The Forward call a client's handler makes, and the client whose handler
\* makes a call.
CallOf(c) == IF c = "c1" THEN "f1" ELSE "f2"
ClientOf(f) == IF f = "f1" THEN "c1" ELSE "c2"
EarlierCalls(f) == IF f = "f1" THEN {} ELSE {"f1"}
RequestIdsOf(f) == IF f = "f1" THEN {"r1"} ELSE RequestIds
\* Events of the agents' side in one run: frames after the register frame and
\* transport failures.
MaxAgentIn == 2
\* Capacity of an agent's outbound queue (make(chan []byte, 256)), scaled down.
AgentSendCap == 1
\* Config.AgentToken when one is configured, the values the configuration can
\* have (empty is the default), and the tokens an agent presents.
AgentToken == "secret"
AgentTokens == {"", AgentToken}
Tokens == {"secret", "wrong"}

\* The Agent's request handlers, named in the order they are started.
Tasks == {"t1", "t2"}
EarlierTasks(t) == IF t = "t1" THEN {} ELSE {"t1"}
\* Dials of the Agent in one run, and frames its reader reads.
MaxAttempts == 7
MaxAgentReads == 3
\* time.Second and Client.maxReconnect, in seconds.
Second == 1
maxReconnect == 30

\* The project paths of one run: AllowedPaths is the agent's -projects list,
\* Paths adds a path that is not on it.
AllowedPaths == {"/p", "/q"}
Paths == AllowedPaths \cup {"/x"}
\* Config.PortMin and Config.PortMax (4096 and 4105 by default), the range
\* scaled down; PortSpace adds the ports just outside the range.
PortMin == 4096
PortMax == 4097
Ports == PortMin..PortMax
PortSpace == (PortMin - 1)..(PortMax + 1)
\* Config.MaxInstances (5 by default), scaled down.
MaxInstances == 1
\* What answers on the ports of the range besides the workers: nothing, or
\* another process on the first port.
Occupied == {{}, {PortMin}}
\* The two launchers the Manager exists with.
Launchers == {"docker", "tmux"}
\* Polls of one WaitForHealth before its deadline (30 s at 500 ms), scaled down.
MaxPolls == 2

\* project.Status
StatusStopped == "stopped"
StatusStarting == "starting"
StatusRunning == "running"
StatusError == "error"
\* the errors of the port pool
ErrNoAvailablePort == "no available port in pool"
ErrPortNotInUse == "port not in use"
ErrAllPortsInUse == "all ports in range are occupied by other services"

\* tunnel message types
MsgTypeRegister == "agent.register"
MsgTypePong == "agent.pong"
MsgTypeResponse == "agent.response"
MsgTypeStream == "agent.stream"
MsgTypeStreamEnd == "agent.stream.end"
MsgTypeError == "agent.error"
MsgTypeRegistered == "agent.registered"
MsgTypePing == "agent.ping"
MsgTypeRequest == "agent.request"

\* The frames an Agent sends for a request id.
AgentFrames ==
    [type : {MsgTypeStream}, payload : AgentPayloads]
        \cup [type : {MsgTypeStreamEnd, MsgTypeError}, payload : {Nil}]

VARIABLES
    \* --- replay buffer: the Redis keys of each session
    ctr,        \* openvibe:session:{s}:msgid, 0 when the key does not exist
    zset,       \* openvibe:session:{s}:messages, the members of the sorted set
    now,        \* the clock (time.Now), advanced when a TTL elapses
    \* --- client connections of the Hub
    pc,         \* where the connection's reader goroutine is
    send,       \* Client.send, the outbound queue
    lastAckID,  \* Client.lastAckID
    req,        \* locals of the handler the reader is in
    respCh,     \* the response channel Forward returned to the handler
    \* --- history
    h_hist,     \* per session: the messages Push gave an id, in INCR order
    h_win,      \* per session: Len(h_hist) at the last TTL expiry or Trim
    h_out,      \* per connection: every sendMessage call, in order
    h_in,       \* inputs fed so far
    h_recv      \* per connection: the agent frames read for its request, in order

VARIABLE
    \* Server.buffer and the Redis behind it: "redis" (a RedisBuffer whose calls
    \* succeed), "down" (a RedisBuffer whose calls fail) or "noop" (NoopBuffer)
    buffer

hubVars == <<ctr, zset, now, pc, send, lastAckID, req, respCh,
             h_hist, h_win, h_out, h_in, h_recv, buffer>>

VARIABLES
    \* --- tunnel manager
    agents,      \* Manager.agents: agentId -> the registered connection, or None
    apc,         \* where the goroutine serving an agent connection is
    agentID,     \* Agent.ID of the connection
    tr,          \* the connection's transport: "open", "failed" or "closed"
    asend,       \* Agent.send, the outbound queue (request ids)
    asendClosed, \* close(agent.send) has run
    requests,    \* Agent.requests: requestId -> the Forward call owning the channel
    dch,         \* handleAgentMessage's locals: the channel it looked up, the frame
    fpc,         \* where each Forward call is
    fcall,       \* the call's arguments, the Agent it resolved to, its error
    ch,          \* the call's response channel: contents and whether closed
    panicked,    \* the Hub process has panicked
    config,      \* Manager.config.AgentToken
    \* --- history
    h_regs,      \* per agentId: the connections registered with it, in order
    h_tin,       \* agent frames and transport failures so far
    h_first,     \* per connection: type and token of its first frame
    h_prev       \* per call: the entry its registration replaced in Agent.requests

managerVars == <<agents, apc, agentID, tr, asend, asendClosed, requests, dch,
                 fpc, fcall, ch, panicked, config, h_regs, h_tin, h_first, h_prev>>

VARIABLES
    \* --- handleViaAgent, the handler of a forwarded non-streaming request
    hpc,         \* where the handler that makes the Forward call is
    hreq,        \* its arguments: the agent id it was given and the request id
    ctxDone,     \* the handler's ctx is done (deadline passed, or cancel() ran)
    \* --- history
    h_exp        \* per call: the deadline passed with no reply read for it yet

reqVars == <<hpc, hreq, ctxDone, h_exp>>

tunnelVars == <<managerVars, reqVars>>

VARIABLES
    \* --- the Agent's tunnel client (agent/internal/tunnel.Client)
    cstate,         \* where Run is: "idle", "registering", "ready", "returned",
                    \* "backoff" or "stopped"
    reconnectDelay, \* Client.reconnectDelay, in seconds
    err,            \* what connectAndRun returned: "nil" or "error"
    aconn,          \* Client.conn: "none", "open" or "closed"
    tpc,            \* per task: where the goroutine of handleRequest is
    treq,           \* per task: the request it handles and what is left to send
    rwrite,         \* the reader is inside WriteJSON, writing a pong
    \* --- history
    h_att,          \* dials so far
    h_end,          \* how the last attempt ended
    h_rin,          \* frames the reader has read in readLoop so far
    h_emit          \* per task: the frames it has written, in order

agentVars == <<cstate, reconnectDelay, err, aconn, tpc, treq, rwrite,
               h_att, h_end, h_rin, h_emit>>

VARIABLES
    \* --- the Agent's worker supervisor (agent/internal/project.Manager)
    launcher,       \* which launcher the Manager is built with: "docker" or "tmux"
    instances,      \* Manager.instances: path -> Status, Port, Error, StartedAt
    portToProject,  \* PortPool.portToProject: reserved port -> path
    spc,            \* the Start call that holds Manager.mu across its external calls
    \* --- the machine the supervisor runs on
    worker,         \* per container/session name: "gone", "up" or "healthy", and its port
    occupied,       \* ports on which some other process answers the health probe
    \* --- history
    sret,           \* what the last call to the supervisor returned
    h_acq,          \* the last call to the pool: its arguments and what it returned
    h_probe         \* health probes that succeeded during the Start in progress

VARIABLES
    \* --- the Agent's child-process supervisor (agent/internal/procmgr.Manager)
    procInstances,  \* Manager.instances: path -> the Instance, named by its port
    insts,          \* the Instances created so far, by port: Path, Status,
                    \* process, mu, and the child process and its waiter
    nextPort,       \* Manager.nextPort
    byLastUsed,     \* the registered Instances in the order of their LastUsed
    holder,         \* the call that holds Manager.mu across its blocking calls
    \* --- history
    pret            \* what the last call to the Manager returned

procVars == <<procInstances, insts, nextPort, byLastUsed, holder, pret>>

supVars == <<launcher, instances, portToProject, spc, worker, occupied,
             sret, h_acq, h_probe, procVars>>

vars == <<hubVars, tunnelVars, agentVars, supVars>>

\* ------------------------------------------------------------ pure helpers

Max(a, b) == IF a >= b THEN a ELSE b

RECURSIVE SetMax(_)
SetMax(S) ==
    IF S = {} THEN 0
    ELSE LET x == CHOOSE y \in S : TRUE IN Max(x, SetMax(S \ {x}))

\* json.Marshal of a json.RawMessage: nil is written as null.
RawJSON(p) == IF p = Nil THEN Null ELSE p

\* json.Marshal(buffer.Message): the member stored in the sorted set.
MarshalMessage(msg) ==
    [id |-> msg.id, type |-> msg.type, requestId |-> msg.requestId,
     payload |-> RawJSON(msg.payload), timestamp |-> msg.timestamp]

\* json.Unmarshal into buffer.Message: the payload keeps the raw JSON text.
UnmarshalMessage(data) ==
    [id |-> data.id, type |-> data.type, requestId |-> data.requestId,
     payload |-> data.payload, timestamp |-> data.timestamp]

\* json.Marshal(ServerMessage); a msgId of 0 is omitted and reads back as 0.
MarshalServerMessage(type, id, msgId, payload, messages, latestId) ==
    [type |-> type, id |-> id, msgId |-> msgId, payload |-> RawJSON(payload),
     messages |-> messages, latestId |-> latestId]

\* ZRANGEBYSCORE key afterID +inf : the closed interval, score >= afterID.
RECURSIVE ZRangeByScoreClosed(_, _)
ZRangeByScoreClosed(members, afterID) ==
    LET in == {m \in members : m.id >= afterID}
    IN IF in = {} THEN <<>>
       ELSE LET lo == CHOOSE m \in in : \A o \in in : m.id <= o.id
            IN <<lo>> \o ZRangeByScoreClosed(in \ {lo}, afterID)

\* ZRANGEBYSCORE key (afterID +inf : the members with score > afterID, by score.
RECURSIVE ZRangeByScore(_, _)
ZRangeByScore(members, afterID) ==
    LET in == {m \in members : m.id > afterID}
    IN IF in = {} THEN <<>>
       ELSE LET lo == CHOOSE m \in in : \A o \in in : m.id <= o.id
            IN <<lo>> \o ZRangeByScore(in \ {lo}, afterID)

RECURSIVE UnmarshalAll(_)
UnmarshalAll(results) ==
    IF results = <<>> THEN <<>>
    ELSE <<UnmarshalMessage(Head(results))>> \o UnmarshalAll(Tail(results))

\* RedisBuffer.GetSince
GetSince(sessionID, afterID) == UnmarshalAll(ZRangeByScore(zset[sessionID], afterID))

\* ZCARD of the sorted set.
ZCard(sessionID) == Cardinality(zset[sessionID])

\* RedisBuffer.GetLatestID: GET of the counter key, 0 on redis.Nil.
GetLatestID(sessionID) == ctr[sessionID]

\* ZREMRANGEBYRANK key 0 -maxCount : a stop index one short, which leaves one
\* member more than maxCount.
ZRemRangeByRankShort(members) ==
    {m \in members : Cardinality({o \in members : o.id > m.id}) < MaxCount + 1}

\* ZREMRANGEBYRANK key 0 -maxCount-1 : removes all but the maxCount highest ranks.
ZRemRangeByRank(members) ==
    {m \in members : Cardinality({o \in members : o.id > m.id}) < MaxCount}

\* useWebSocket.ts, ws.onmessage: the frame built from a message of a sync.batch.
SyntheticMsg(bufferedMsg) ==
    [type |-> bufferedMsg.type, id |-> bufferedMsg.requestId,
     msgId |-> bufferedMsg.id, payload |-> bufferedMsg.payload]

\* A buffer.Message that has not been filled in.
NoMessage == [id |-> 0, type |-> "", requestId |-> "", payload |-> Nil, timestamp |-> 0]

NoReq == [sid |-> "", rid |-> "", after |-> 0, ent |-> NoMessage, msgID |-> 0,
          msgs |-> <<>>]

\* A Push to session s is between its INCR and its ZADD.
PushInFlight(s) == \E c \in Clients : pc[c] \in {"push", "bpush"} /\ req[c].sid = s

\* ------------------------------------------------------------------- Init

InitHub ==
    /\ ctr = [s \in Sessions |-> 0]
    /\ zset = [s \in Sessions |-> {}]
    /\ now = 1
    /\ pc = [c \in Clients |-> "none"]
    /\ send = [c \in Clients |-> <<>>]
    /\ lastAckID = [c \in Clients |-> 0]
    /\ req = [c \in Clients |-> NoReq]
    /\ respCh = [c \in Clients |-> <<>>]
    /\ h_hist = [s \in Sessions |-> <<>>]
    /\ h_win = [s \in Sessions |-> 0]
    /\ h_out = [c \in Clients |-> <<>>]
    /\ h_in = 0
    /\ h_recv = [c \in Clients |-> <<>>]

NoCall == [agentID |-> "", rid |-> "", conn |-> None, err |-> ""]
NoDispatch == [call |-> None, type |-> ""]

InitTunnel ==
    /\ agents = [a \in AgentIds |-> None]
    /\ apc = [k \in Conns |-> "none"]
    /\ agentID = [k \in Conns |-> ""]
    /\ tr = [k \in Conns |-> "open"]
    /\ asend = [k \in Conns |-> <<>>]
    /\ asendClosed = [k \in Conns |-> FALSE]
    /\ requests = [k \in Conns |-> [r \in RequestIds |-> None]]
    /\ dch = [k \in Conns |-> NoDispatch]
    /\ fpc = [f \in Calls |-> "idle"]
    /\ fcall = [f \in Calls |-> NoCall]
    /\ ch = [f \in Calls |-> [buf |-> <<>>, closed |-> FALSE]]
    /\ panicked = FALSE
    /\ config \in AgentTokens
    /\ h_regs = [a \in AgentIds |-> <<>>]
    /\ h_tin = 0
    /\ h_first = [k \in Conns |-> [type |-> "", token |-> ""]]
    /\ h_prev = [f \in Calls |-> None]
    /\ hpc = [f \in Calls |-> "none"]
    /\ hreq = [f \in Calls |-> [agentID |-> "", rid |-> ""]]
    /\ ctxDone = [f \in Calls |-> FALSE]
    /\ h_exp = [f \in Calls |-> FALSE]

NoTask == [id |-> "", valid |-> FALSE, action |-> "", outcome |-> "", parts |-> <<>>,
           called |-> FALSE, chunks |-> <<>>, frame |-> Nil, last |-> FALSE]

\* tunnel.NewClient: no connection, reconnectDelay of one second.
InitAgent ==
    /\ cstate = "idle"
    /\ reconnectDelay = Second
    /\ err = "nil"
    /\ aconn = "none"
    /\ tpc = [t \in Tasks |-> "none"]
    /\ treq = [t \in Tasks |-> NoTask]
    /\ rwrite = FALSE
    /\ h_att = 0
    /\ h_end = ""
    /\ h_rin = 0
    /\ h_emit = [t \in Tasks |-> <<>>]

\* Instances made for every path, allowed or not.
NewManagerAllPaths(cfg) ==
    [path \in Paths |-> [Status |-> StatusStopped, Port |-> 0, Error |-> "",
                         StartedAt |-> "zero"]]

\* project.NewManager: one stopped instance per allowed path.
NewManager(cfg) ==
    [path \in cfg |-> [Status |-> StatusStopped, Port |-> 0, Error |-> "",
                        StartedAt |-> "zero"]]

NoStart == [pc |-> "idle", path |-> "", port |-> 0, polls |-> 0]
NoInstance == [Status |-> "", Port |-> 0, Error |-> "", StartedAt |-> "zero"]
NoReturn == [op |-> "", path |-> "", err |-> "", status |-> "", inst |-> NoInstance,
             url |-> <<>>, n |-> 0]
NoPoolCall == [op |-> "", path |-> "", port |-> 0, err |-> "", inUse |-> {}, n |-> 0]

\* procmgr: Config.BasePort (DefaultConfig), the status only procmgr has, and
\* the call record when nobody holds Manager.mu.
BasePort == 14001
StatusStopping == "stopping"
NoHolder == [op |-> "", path |-> "", port |-> 0, pc |-> "idle", ctx |-> "live", err |-> ""]
NoProcReturn == [op |-> "", path |-> "", err |-> "", port |-> 0]

\* procmgr.NewManager: no instance, the first port to hand out.
NewProcManager ==
    /\ procInstances = <<>>
    /\ insts = <<>>
    /\ nextPort = BasePort
    /\ byLastUsed = <<>>
    /\ holder = NoHolder
    /\ pret = NoProcReturn

\* The supervisor after NewManager on a machine with no worker: an empty
\* pool (NewPortPool) and nothing in progress.
InitManager ==
    /\ instances = NewManager(AllowedPaths)
    /\ portToProject = <<>>
    /\ spc = NoStart
    /\ worker = [path \in AllowedPaths |-> [state |-> "gone", port |-> 0]]
    /\ sret = NoReturn
    /\ h_acq = NoPoolCall
    /\ h_probe = 0

\* The hub started with an agent token (-agent-token / OPENVIBE_AGENT_TOKEN).
Init ==
    /\ InitHub /\ InitTunnel /\ InitAgent /\ config = AgentToken
    /\ InitManager /\ NewProcManager /\ launcher = "docker" /\ occupied = {}
    /\ buffer = "redis"

\* The hub started with or without an agent token (the flag defaults to "").
InitAdmission ==
    /\ InitHub /\ InitTunnel /\ InitAgent
    /\ InitManager /\ NewProcManager /\ launcher = "docker" /\ occupied = {}
    /\ buffer = "redis"

\* The Agent built with either launcher, on a machine where other processes
\* may answer on some ports of the range.
InitSupervisor ==
    /\ InitHub /\ InitTunnel /\ InitAgent /\ config = AgentToken
    /\ InitManager /\ NewProcManager /\ launcher \in Launchers /\ occupied \in Occupied
    /\ buffer = "redis"

\* The Hub started with Redis reachable (a RedisBuffer) or, Redis disabled or
\* not reachable at startup, with the NoopBuffer.
InitDegraded ==
    /\ InitHub /\ InitTunnel /\ InitAgent /\ config = AgentToken
    /\ InitManager /\ NewProcManager /\ launcher = "docker" /\ occupied = {}
    /\ buffer \in {"redis", "noop"}

\* ------------------------------------------------------- the replay buffer

\* RedisBuffer.Push, first half, called by c: INCR of the counter key gives the
\* id; the message gets the id and, having no timestamp, the current time.
PushIncr(c, sessionID, type, requestID, payload) ==
    LET id == ctr[sessionID] + 1
        msg == [id |-> id, type |-> type, requestId |-> requestID,
                payload |-> payload, timestamp |-> now]
    IN /\ ctr' = [ctr EXCEPT ![sessionID] = id]
       /\ req' = [req EXCEPT ![c] =
                     [@ EXCEPT !.sid = sessionID, !.rid = requestID, !.ent = msg]]
       /\ h_hist' = [h_hist EXCEPT ![sessionID] = Append(@, msg)]

\* RedisBuffer.Push, second half: ZADD of the marshalled message with the id as
\* score, EXPIRE of both keys; the id is what Push returns.
PushZAdd(c) ==
    zset' = [zset EXCEPT ![req[c].sid] = @ \cup {MarshalMessage(req[c].ent)}]

\* The TTL of a session's keys elapses with no Push in between: Redis removes
\* the sorted set and the counter.
TTLExpire(s) ==
    /\ ctr[s] > 0 \/ zset[s] # {}
    /\ ~PushInFlight(s)
    /\ ctr' = [ctr EXCEPT ![s] = 0]
    /\ zset' = [zset EXCEPT ![s] = {}]
    /\ now' = now + 1
    /\ h_win' = [h_win EXCEPT ![s] = Len(h_hist[s])]
    /\ UNCHANGED <<pc, send, lastAckID, req, respCh, h_hist, h_out, h_in>>
    /\ UNCHANGED h_recv
    /\ UNCHANGED tunnelVars
    /\ UNCHANGED <<agentVars, supVars, buffer>>

\* RedisBuffer.Trim
Trim(s) ==
    /\ zset[s] # {}
    /\ zset' = [zset EXCEPT ![s] = ZRemRangeByRank(@)]
    /\ h_win' = [h_win EXCEPT ![s] = Len(h_hist[s])]
    /\ UNCHANGED <<ctr, now, pc, send, lastAckID, req, respCh, h_hist, h_out, h_in>>
    /\ UNCHANGED h_recv
    /\ UNCHANGED tunnelVars
    /\ UNCHANGED <<agentVars, supVars, buffer>>

\* A goroutine calls Push(sessionID, msg): up to the INCR.
BufPush(c, sessionID, type, payload) ==
    /\ pc[c] = "none"
    /\ h_in < MaxIn
    /\ h_in' = h_in + 1
    /\ PushIncr(c, sessionID, type, RequestIdOf(c), payload)
    /\ pc' = [pc EXCEPT ![c] = "bpush"]
    /\ UNCHANGED <<zset, now, send, lastAckID, respCh, h_win, h_out>>
    /\ UNCHANGED h_recv
    /\ UNCHANGED tunnelVars
    /\ UNCHANGED <<agentVars, supVars, buffer>>

\* ... and the rest of that Push; the call returns.
BufPushReturn(c) ==
    /\ pc[c] = "bpush"
    /\ PushZAdd(c)
    /\ pc' = [pc EXCEPT ![c] = "none"]
    /\ req' = [req EXCEPT ![c] = NoReq]
    /\ UNCHANGED <<ctr, now, send, lastAckID, respCh, h_hist, h_win, h_out, h_in>>
    /\ UNCHANGED h_recv
    /\ UNCHANGED tunnelVars
    /\ UNCHANGED <<agentVars, supVars, buffer>>

NextBuffer ==
    \/ \E c \in Clients, s \in Sessions, p \in AgentPayloads :
           BufPush(c, s, "stream", p)
    \/ \E c \in Clients, s \in Sessions : BufPush(c, s, "stream.end", Nil)
    \/ \E c \in Clients : BufPushReturn(c)
    \/ \E s \in Sessions : TTLExpire(s)
    \/ \E s \in Sessions : Trim(s)

SpecBuffer == Init /\ [][NextBuffer]_vars

\* ------------------------------------------------------ the client server

\* An enqueue that makes room by discarding the oldest queued frame.
sendMessageDropOldest(c, s, data) ==
    LET full == Len(send[c]) >= SendCap
    IN /\ send' = [send EXCEPT ![c] = Append(IF full THEN Tail(@) ELSE @, data)]
       /\ h_out' = [h_out EXCEPT ![c] =
              Append(@, [session |-> s, frame |-> data, dropped |-> FALSE])]

\* Client.sendMessage: marshal, then a non-blocking enqueue; dropped when full.
sendMessage(c, s, data) ==
    LET full == Len(send[c]) >= SendCap
    IN /\ send' = [send EXCEPT ![c] = IF full THEN @ ELSE Append(@, data)]
       /\ h_out' = [h_out EXCEPT ![c] =
              Append(@, [session |-> s, frame |-> data, dropped |-> full])]

\* Server.HandleWebSocket: a new client connection, reader and writer started.
HandleWebSocket(c) ==
    /\ pc[c] = "none"
    /\ pc' = [pc EXCEPT ![c] = "idle"]
    /\ UNCHANGED <<ctr, zset, now, send, lastAckID, req, respCh,
                   h_hist, h_win, h_out, h_in>>
    /\ UNCHANGED h_recv
    /\ UNCHANGED tunnelVars
    /\ UNCHANGED <<agentVars, supVars, buffer>>

\* Client.writePump: takes the next frame of the queue and writes it. A writer
\* that is blocked, or whose transport is gone, is one that takes no step.
writePump(c) ==
    /\ send[c] # <<>>
    /\ send' = [send EXCEPT ![c] = Tail(@)]
    /\ UNCHANGED <<ctr, zset, now, pc, lastAckID, req, respCh,
                   h_hist, h_win, h_out, h_in>>
    /\ UNCHANGED h_recv
    /\ UNCHANGED tunnelVars
    /\ UNCHANGED <<agentVars, supVars, buffer>>

\* handleMessage, case "prompt", with an Agent registered: handlePrompt calls
\* handleViaAgentStream, whose Forward returns a fresh response channel.
handlePrompt(c, requestID, sessionID) ==
    /\ pc[c] = "idle"
    /\ pc' = [pc EXCEPT ![c] = "stream"]
    /\ req' = [req EXCEPT ![c] = [NoReq EXCEPT !.sid = sessionID, !.rid = requestID]]
    /\ respCh' = [respCh EXCEPT ![c] = <<>>]
    /\ UNCHANGED <<ctr, zset, now, send, lastAckID, h_hist, h_win, h_out, h_in>>
    /\ UNCHANGED h_recv
    /\ UNCHANGED tunnelVars
    /\ UNCHANGED <<agentVars, supVars, buffer>>

\* A delivery that puts the reply in front of the replies already waiting.
deliverReplyFirst(c, msg) ==
    /\ pc[c] \in {"stream", "push", "emit"}
    /\ h_in < MaxIn
    /\ h_in' = h_in + 1
    /\ respCh' = [respCh EXCEPT ![c] =
                    IF Len(@) < RespCap THEN <<msg>> \o @ ELSE @]
    /\ h_recv' = [h_recv EXCEPT ![c] = Append(@, msg)]
    /\ UNCHANGED <<ctr, zset, now, pc, send, lastAckID, req, h_hist, h_win, h_out>>
    /\ UNCHANGED tunnelVars
    /\ UNCHANGED <<agentVars, supVars, buffer>>

\* Manager.handleAgentMessage, seen from the prompt handler of c: a reply for
\* its pending request is put on its response channel, or dropped when the
\* channel is full.
deliverReply(c, msg) ==
    /\ pc[c] \in {"stream", "push", "emit"}
    /\ h_in < MaxIn
    /\ h_in' = h_in + 1
    /\ respCh' = [respCh EXCEPT ![c] =
                    IF Len(@) < RespCap THEN Append(@, msg) ELSE @]
    /\ h_recv' = [h_recv EXCEPT ![c] = Append(@, msg)]
    /\ UNCHANGED <<ctr, zset, now, pc, send, lastAckID, req, h_hist, h_win, h_out>>
    /\ UNCHANGED tunnelVars
    /\ UNCHANGED <<agentVars, supVars, buffer>>

\* handleViaAgentStream, one turn of `for msg := range respCh`: a stream or
\* stream.end frame goes to Push (here up to its INCR); an error frame is sent
\* to the client as it is, without Push.
StreamRecv(c) ==
    /\ pc[c] = "stream"
    /\ respCh[c] # <<>>
    /\ Head(respCh[c]).type \in {MsgTypeStream, MsgTypeStreamEnd} => buffer = "redis"
    /\ LET msg == Head(respCh[c])
       IN /\ respCh' = [respCh EXCEPT ![c] = Tail(@)]
          /\ IF msg.type = MsgTypeStream
             THEN /\ PushIncr(c, req[c].sid, "stream", req[c].rid, msg.payload)
                  /\ pc' = [pc EXCEPT ![c] = "push"]
                  /\ UNCHANGED <<send, h_out>>
             ELSE IF msg.type = MsgTypeStreamEnd
             THEN /\ PushIncr(c, req[c].sid, "stream.end", req[c].rid, Nil)
                  /\ pc' = [pc EXCEPT ![c] = "push"]
                  /\ UNCHANGED <<send, h_out>>
             ELSE /\ sendMessage(c, req[c].sid,
                        MarshalServerMessage("error", req[c].rid, 0, msg.payload, <<>>, 0))
                  /\ UNCHANGED <<ctr, req, pc, h_hist>>
    /\ UNCHANGED <<zset, now, lastAckID, h_win, h_in>>
    /\ UNCHANGED h_recv
    /\ UNCHANGED tunnelVars
    /\ UNCHANGED <<agentVars, supVars, buffer>>

\* handleViaAgentStream: Push returns the id (msgID, _ := buffer.Push(...)).
StreamPushed(c) ==
    /\ pc[c] = "push"
    /\ buffer = "redis"
    /\ PushZAdd(c)
    /\ req' = [req EXCEPT ![c].msgID = req[c].ent.id]
    /\ pc' = [pc EXCEPT ![c] = "emit"]
    /\ UNCHANGED <<ctr, now, send, lastAckID, respCh, h_hist, h_win, h_out, h_in>>
    /\ UNCHANGED h_recv
    /\ UNCHANGED tunnelVars
    /\ UNCHANGED <<agentVars, supVars, buffer>>

\* handleViaAgentStream: the frame is sent to the client with that id.
StreamEmit(c) ==
    /\ pc[c] = "emit"
    /\ sendMessage(c, req[c].sid,
           MarshalServerMessage(req[c].ent.type, req[c].rid, req[c].msgID,
                                req[c].ent.payload, <<>>, 0))
    /\ pc' = [pc EXCEPT ![c] = "stream"]
    /\ req' = [req EXCEPT ![c].ent = NoMessage, ![c].msgID = 0]
    /\ UNCHANGED <<ctr, zset, now, lastAckID, respCh, h_hist, h_win, h_in>>
    /\ UNCHANGED h_recv
    /\ UNCHANGED tunnelVars
    /\ UNCHANGED <<agentVars, supVars, buffer>>

\* handleMessage, case "sync": handleSync up to and including GetSince.
handleSync(c, requestID, sessionID, lastAckId) ==
    /\ pc[c] = "idle"
    /\ buffer = "redis"
    /\ h_in < MaxIn
    /\ h_in' = h_in + 1
    /\ req' = [req EXCEPT ![c] = [NoReq EXCEPT !.sid = sessionID, !.rid = requestID,
                                              !.after = lastAckId,
                                              !.msgs = GetSince(sessionID, lastAckId)]]
    /\ pc' = [pc EXCEPT ![c] = "sync"]
    /\ UNCHANGED <<ctr, zset, now, send, lastAckID, respCh, h_hist, h_win, h_out>>
    /\ UNCHANGED h_recv
    /\ UNCHANGED tunnelVars
    /\ UNCHANGED <<agentVars, supVars, buffer>>

\* handleSync: GetLatestID, then the sync.batch reply.
SyncReply(c) ==
    /\ pc[c] = "sync"
    /\ buffer = "redis"
    /\ sendMessage(c, req[c].sid,
           MarshalServerMessage("sync.batch", req[c].rid, 0, Nil,
                                req[c].msgs, GetLatestID(req[c].sid)))
    /\ pc' = [pc EXCEPT ![c] = "idle"]
    /\ req' = [req EXCEPT ![c] = NoReq]
    /\ UNCHANGED <<ctr, zset, now, lastAckID, respCh, h_hist, h_win, h_in>>
    /\ UNCHANGED h_recv
    /\ UNCHANGED tunnelVars
    /\ UNCHANGED <<agentVars, supVars, buffer>>

\* handleMessage, case "ack".
handleAck(c, msgId) ==
    /\ pc[c] = "idle"
    /\ h_in < MaxIn
    /\ h_in' = h_in + 1
    /\ lastAckID' = [lastAckID EXCEPT ![c] = msgId]
    /\ UNCHANGED <<ctr, zset, now, pc, send, req, respCh, h_hist, h_win, h_out>>
    /\ UNCHANGED h_recv
    /\ UNCHANGED tunnelVars
    /\ UNCHANGED <<agentVars, supVars, buffer>>

\* The server calls Push, GetSince and GetLatestID only; Trim has no caller, so
\* a session's entries leave the buffer by TTL expiry alone.
NextHub ==
    \/ \E c \in Clients : HandleWebSocket(c)
    \/ \E c \in Clients : writePump(c)
    \/ \E c \in Clients, s \in HubSessions : handlePrompt(c, RequestIdOf(c), s)
    \/ \E c \in Clients, m \in AgentFrames : deliverReply(c, m)
    \/ \E c \in Clients : StreamRecv(c)
    \/ \E c \in Clients : StreamPushed(c)
    \/ \E c \in Clients : StreamEmit(c)
    \/ \E c \in Clients, s \in HubSessions, a \in AckIds :
           handleSync(c, RequestIdOf(c), s, a)
    \/ \E c \in Clients : SyncReply(c)
    \/ \E c \in Clients, m \in AckIds : handleAck(c, m)
    \/ \E s \in Sessions : TTLExpire(s)

Next == NextHub

Spec == Init /\ [][Next]_vars

\* ------------------------------------------------------ the tunnel manager

\* The frames an Agent sends after registering: a pong, or a reply to a request id.
AgentMsgs ==
    [type : {MsgTypePong}, id : {""}]
        \cup [type : {MsgTypeStream}, id : RequestIds]

\* A comparison that accepts every token.
CompareAlwaysEqual(x, y) == 1

\* subtle.ConstantTimeCompare: 1 when the two byte strings are equal, else 0.
ConstantTimeCompare(x, y) == IF x = y THEN 1 ELSE 0

\* HandleAgentWebSocket: an agent's transport is upgraded and its first frame
\* read. Anything but a register frame with the configured token closes the
\* transport; when no token is configured the token is not compared. A register frame installs the Agent under its id, closing the
\* transport of the Agent installed there, in one critical section; the
\* writer is started and the reader loop entered.
HandleAgentWebSocket(k, type, id, token) ==
    /\ ~panicked
    /\ apc[k] = "none"
    /\ \A j \in EarlierConns(k) : apc[j] # "none"
    /\ IF \/ type # MsgTypeRegister
          \/ (config # "" /\ ConstantTimeCompare(token, config) # 1)
       THEN /\ tr' = [tr EXCEPT ![k] = "closed"]
            /\ apc' = [apc EXCEPT ![k] = "done"]
            /\ UNCHANGED <<agents, agentID, h_regs>>
       ELSE /\ agentID' = [agentID EXCEPT ![k] = id]
            /\ tr' = IF agents[id] # None
                     THEN [tr EXCEPT ![agents[id]] = "closed"]
                     ELSE tr
            /\ agents' = [agents EXCEPT ![id] = k]
            /\ apc' = [apc EXCEPT ![k] = "serving"]
            /\ h_regs' = [h_regs EXCEPT ![id] = Append(@, k)]
    /\ UNCHANGED <<asend, asendClosed, requests, dch, fpc, fcall, ch, panicked, h_tin>>
    /\ h_first' = [h_first EXCEPT ![k] = [type |-> type, token |-> token]]
    /\ UNCHANGED <<config, h_prev>>
    /\ UNCHANGED reqVars
    /\ UNCHANGED hubVars
    /\ UNCHANGED <<agentVars, supVars, buffer>>

\* The agent's side of the transport goes away (peer closed, network, pong timeout).
TransportFail(k) ==
    /\ ~panicked
    /\ apc[k] \in {"serving", "dispatch"}
    /\ tr[k] = "open"
    /\ h_tin < MaxAgentIn
    /\ h_tin' = h_tin + 1
    /\ tr' = [tr EXCEPT ![k] = "failed"]
    /\ UNCHANGED <<agents, apc, agentID, asend, asendClosed, requests, dch,
                   fpc, fcall, ch, panicked, h_regs>>
    /\ UNCHANGED <<config, h_first, h_prev>>
    /\ UNCHANGED reqVars
    /\ UNCHANGED hubVars
    /\ UNCHANGED <<agentVars, supVars, buffer>>

\* readPump: ReadMessage returns a frame; handleAgentMessage up to the lookup
\* of the pending request under the read lock.
readPump(k, msg) ==
    /\ ~panicked
    /\ apc[k] = "serving"
    /\ tr[k] = "open"
    /\ h_tin < MaxAgentIn
    /\ h_tin' = h_tin + 1
    /\ IF msg.type # MsgTypePong /\ msg.id # "" /\ requests[k][msg.id] # None
       THEN /\ dch' = [dch EXCEPT ![k] = [call |-> requests[k][msg.id], type |-> msg.type]]
            /\ apc' = [apc EXCEPT ![k] = "dispatch"]
       ELSE UNCHANGED <<dch, apc>>
    /\ UNCHANGED <<agents, agentID, tr, asend, asendClosed, requests,
                   fpc, fcall, ch, panicked, h_regs>>
    /\ UNCHANGED <<config, h_first, h_prev>>
    /\ UNCHANGED reqVars
    /\ UNCHANGED hubVars
    /\ UNCHANGED <<agentVars, supVars, buffer>>

\* handleAgentMessage, after the lookup: the non-blocking send on the channel
\* it found. A send on a closed channel panics.
handleAgentMessage(k) ==
    /\ ~panicked
    /\ apc[k] = "dispatch"
    /\ LET f == dch[k].call
       IN IF ch[f].closed
          THEN /\ panicked' = TRUE
               /\ UNCHANGED ch
          ELSE /\ ch' = [ch EXCEPT ![f].buf =
                           IF Len(@) < RespCap THEN Append(@, dch[k].type) ELSE @]
               /\ UNCHANGED panicked
    /\ dch' = [dch EXCEPT ![k] = NoDispatch]
    /\ apc' = [apc EXCEPT ![k] = "serving"]
    /\ UNCHANGED <<agents, agentID, tr, asend, asendClosed, requests,
                   fpc, fcall, h_regs, h_tin>>
    /\ UNCHANGED <<config, h_first, h_prev>>
    /\ UNCHANGED reqVars
    /\ UNCHANGED hubVars
    /\ UNCHANGED <<agentVars, supVars, buffer>>

\* readPump: ReadMessage returns an error; the deferred cleanup starts with
\* delete(m.agents, agent.ID) under the manager's lock.
readPumpExit(k) ==
    /\ ~panicked
    /\ apc[k] = "serving"
    /\ tr[k] # "open"
    /\ agents' = [agents EXCEPT ![agentID[k]] = None]
    /\ apc' = [apc EXCEPT ![k] = "cleanup"]
    /\ UNCHANGED <<agentID, tr, asend, asendClosed, requests, dch,
                   fpc, fcall, ch, panicked, h_regs, h_tin>>
    /\ UNCHANGED <<config, h_first, h_prev>>
    /\ UNCHANGED reqVars
    /\ UNCHANGED hubVars
    /\ UNCHANGED <<agentVars, supVars, buffer>>

\* readPump, the rest of the deferred cleanup: agent.Conn.Close() and
\* close(agent.send).
readPumpCleanup(k) ==
    /\ ~panicked
    /\ apc[k] = "cleanup"
    /\ tr' = [tr EXCEPT ![k] = "closed"]
    /\ asendClosed' = [asendClosed EXCEPT ![k] = TRUE]
    /\ apc' = [apc EXCEPT ![k] = "done"]
    /\ UNCHANGED <<agents, agentID, asend, requests, dch,
                   fpc, fcall, ch, panicked, h_regs, h_tin>>
    /\ UNCHANGED <<config, h_first, h_prev>>
    /\ UNCHANGED reqVars
    /\ UNCHANGED hubVars
    /\ UNCHANGED <<agentVars, supVars, buffer>>

\* Manager.writePump: takes the next request of agent.send and writes it to
\* the transport. A writer that has returned (write error, queue closed) is one
\* that takes no step; what its deferred Conn.Close() does to the reader is
\* TransportFail.
agentWritePump(k) ==
    /\ ~panicked
    /\ asend[k] # <<>>
    /\ asend' = [asend EXCEPT ![k] = Tail(@)]
    /\ UNCHANGED <<agents, apc, agentID, tr, asendClosed, requests, dch,
                   fpc, fcall, ch, panicked, h_regs, h_tin>>
    /\ UNCHANGED <<config, h_first, h_prev>>
    /\ UNCHANGED reqVars
    /\ UNCHANGED hubVars
    /\ UNCHANGED <<agentVars, supVars, buffer>>

\* Manager.Forward: the lookup of the agent under the manager's read lock;
\* ErrAgentNotFound when the id is not registered.
Forward(f, agentId, requestID) ==
    /\ ~panicked
    /\ fpc[f] = "idle"
    /\ \A g \in EarlierCalls(f) : fpc[g] # "idle"
    /\ IF agents[agentId] = None
       THEN /\ fpc' = [fpc EXCEPT ![f] = "failed"]
            /\ fcall' = [fcall EXCEPT ![f] =
                  [agentID |-> agentId, rid |-> requestID, conn |-> None,
                   err |-> "ErrAgentNotFound"]]
       ELSE /\ fpc' = [fpc EXCEPT ![f] = "found"]
            /\ fcall' = [fcall EXCEPT ![f] =
                  [agentID |-> agentId, rid |-> requestID, conn |-> agents[agentId],
                   err |-> ""]]
    /\ UNCHANGED <<agents, apc, agentID, tr, asend, asendClosed, requests, dch,
                   ch, panicked, h_regs, h_tin>>
    /\ UNCHANGED <<config, h_first, h_prev>>
    /\ UNCHANGED reqVars
    /\ UNCHANGED hubVars
    /\ UNCHANGED <<agentVars, supVars, buffer>>

\* Manager.Forward: responseCh is made and stored under the request id.
ForwardRegister(f) ==
    /\ ~panicked
    /\ fpc[f] = "found"
    /\ requests' = [requests EXCEPT ![fcall[f].conn][fcall[f].rid] = f]
    /\ fpc' = [fpc EXCEPT ![f] = "registered"]
    /\ UNCHANGED <<agents, apc, agentID, tr, asend, asendClosed, dch,
                   fcall, ch, panicked, h_regs, h_tin>>
    /\ h_prev' = [h_prev EXCEPT ![f] = requests[fcall[f].conn][fcall[f].rid]]
    /\ UNCHANGED <<config, h_first>>
    /\ UNCHANGED reqVars
    /\ UNCHANGED hubVars
    /\ UNCHANGED <<agentVars, supVars, buffer>>

\* Manager.Forward: the non-blocking send of the request on agent.send. With
\* room, the request is queued, the watcher of ctx is started and the channel
\* returned; when full, the request id is deleted, the channel closed and an
\* error returned. A send on a closed queue panics.
ForwardSend(f) ==
    /\ ~panicked
    /\ fpc[f] = "registered"
    /\ LET k == fcall[f].conn
           rid == fcall[f].rid
       IN IF asendClosed[k]
          THEN /\ panicked' = TRUE
               /\ UNCHANGED <<asend, requests, ch, fpc, fcall>>
          ELSE IF Len(asend[k]) < AgentSendCap
          THEN /\ asend' = [asend EXCEPT ![k] = Append(@, rid)]
               /\ fpc' = [fpc EXCEPT ![f] = "waiting"]
               /\ UNCHANGED <<requests, ch, fcall, panicked>>
          ELSE /\ requests' = [requests EXCEPT ![k][rid] = None]
               /\ ch' = [ch EXCEPT ![f].closed = TRUE]
               /\ fpc' = [fpc EXCEPT ![f] = "failed"]
               /\ fcall' = [fcall EXCEPT ![f].err = "agent send buffer full"]
               /\ UNCHANGED <<asend, panicked>>
    /\ UNCHANGED <<agents, apc, agentID, tr, asendClosed, dch, h_regs, h_tin>>
    /\ UNCHANGED <<config, h_first, h_prev>>
    /\ UNCHANGED reqVars
    /\ UNCHANGED hubVars
    /\ UNCHANGED <<agentVars, supVars, buffer>>

\* Manager.Forward's watcher: ctx is done; the request id is deleted from the
\* agent's map and the channel closed.
ForwardCtxDone(f) ==
    /\ ~panicked
    /\ fpc[f] = "waiting"
    /\ requests' = [requests EXCEPT ![fcall[f].conn][fcall[f].rid] = None]
    /\ ch' = [ch EXCEPT ![f].closed = TRUE]
    /\ fpc' = [fpc EXCEPT ![f] = "done"]
    /\ UNCHANGED <<agents, apc, agentID, tr, asend, asendClosed, dch,
                   fcall, panicked, h_regs, h_tin>>
    /\ UNCHANGED <<config, h_first, h_prev>>
    /\ UNCHANGED reqVars
    /\ UNCHANGED hubVars
    /\ UNCHANGED <<agentVars, supVars, buffer>>

\* The caller of Forward receives the next reply from the channel.
ForwardRecv(f) ==
    /\ ~panicked
    /\ fpc[f] \in {"waiting", "done"}
    /\ ch[f].buf # <<>>
    /\ ch' = [ch EXCEPT ![f].buf = Tail(@)]
    /\ UNCHANGED <<agents, apc, agentID, tr, asend, asendClosed, requests, dch,
                   fpc, fcall, panicked, h_regs, h_tin>>
    /\ UNCHANGED <<config, h_first, h_prev>>
    /\ UNCHANGED reqVars
    /\ UNCHANGED hubVars
    /\ UNCHANGED <<agentVars, supVars, buffer>>

NextTunnel ==
    \/ \E k \in Conns, type \in {MsgTypeRegister, MsgTypePong},
          id \in AgentIds, token \in Tokens : HandleAgentWebSocket(k, type, id, token)
    \/ \E k \in Conns : TransportFail(k)
    \/ \E k \in Conns, m \in AgentMsgs : readPump(k, m)
    \/ \E k \in Conns : handleAgentMessage(k)
    \/ \E k \in Conns : readPumpExit(k)
    \/ \E k \in Conns : readPumpCleanup(k)
    \/ \E k \in Conns : agentWritePump(k)
    \/ \E f \in Calls, a \in AgentIds : \E r \in RequestIdsOf(f) : Forward(f, a, r)
    \/ \E f \in Calls : ForwardRegister(f)
    \/ \E f \in Calls : ForwardSend(f)
    \/ \E f \in Calls : ForwardCtxDone(f)
    \/ \E f \in Calls : ForwardRecv(f)

SpecTunnel == Init /\ [][NextTunnel]_vars

\* ------------------------------- the handler of a forwarded request

\* The replies an Agent sends to a non-streaming request.
ReplyMsgs == [type : {MsgTypeResponse, MsgTypeError}, id : RequestIds]

\* The frame handleViaAgent sends the client for a reply of the given type:
\* "error" for an error frame, "response" for every other type. The tunnel
\* part of the model carries the types of replies, not their payloads.
ReplyFrame(type, requestID) ==
    MarshalServerMessage(IF type = MsgTypeError THEN "error" ELSE "response",
                         requestID, 0, Nil, <<>>, 0)

\* Client.sendError: an "error" frame with the request id and the text.
ErrorFrame(requestID, errMsg) ==
    MarshalServerMessage("error", requestID, 0, errMsg, <<>>, 0)

\* handleViaAgent returns to handleSessionList, whose deferred cancel() runs,
\* and the reader of the client goes back to reading.
HandlerReturn(f) ==
    /\ hpc' = [hpc EXCEPT ![f] = "done"]
    /\ ctxDone' = [ctxDone EXCEPT ![f] = TRUE]
    /\ pc' = [pc EXCEPT ![ClientOf(f)] = "idle"]

\* handleMessage, case "session.list": handleSessionList makes a ctx with a 10 s
\* deadline and asks GetAnyAgent; with an Agent it calls handleViaAgent with
\* that Agent's id, without one it answers from the direct mode, which is
\* reachable (a response frame) or not (an error frame).
handleSessionList(c, requestID, direct) ==
    /\ ~panicked
    /\ pc[c] = "idle"
    /\ hpc[CallOf(c)] = "none"
    /\ h_in < MaxIn
    /\ h_in' = h_in + 1
    /\ IF \E a \in AgentIds : agents[a] # None
       THEN /\ \E a \in AgentIds :
                  /\ agents[a] # None
                  /\ hreq' = [hreq EXCEPT ![CallOf(c)] =
                                [agentID |-> a, rid |-> requestID]]
            /\ hpc' = [hpc EXCEPT ![CallOf(c)] = "forward"]
            /\ pc' = [pc EXCEPT ![c] = "via"]
            /\ UNCHANGED <<send, h_out>>
       ELSE /\ sendMessage(c, "",
                  IF direct THEN MarshalServerMessage("response", requestID, 0,
                                                      Nil, <<>>, 0)
                  ELSE ErrorFrame(requestID, "No agent connected"))
            /\ UNCHANGED <<hreq, hpc, pc>>
    /\ UNCHANGED <<ctr, zset, now, lastAckID, req, respCh, h_hist, h_win, h_recv>>
    /\ UNCHANGED <<managerVars, ctxDone, h_exp>>
    /\ UNCHANGED <<agentVars, supVars, buffer>>

\* handleViaAgent: the call of Forward, up to its lookup of the agent.
handleViaAgent(f) ==
    /\ hpc[f] = "forward"
    /\ Forward(f, hreq[f].agentID, hreq[f].rid)

\* handleViaAgent: Forward returned an error; sendError and return.
handleViaAgentFailed(f) ==
    /\ ~panicked
    /\ hpc[f] = "forward"
    /\ fpc[f] = "failed"
    /\ sendMessage(ClientOf(f), "",
           ErrorFrame(hreq[f].rid, "Agent forward failed: " \o fcall[f].err))
    /\ HandlerReturn(f)
    /\ UNCHANGED <<ctr, zset, now, lastAckID, req, respCh, h_hist, h_win, h_in, h_recv>>
    /\ UNCHANGED <<managerVars, hreq, h_exp>>
    /\ UNCHANGED <<agentVars, supVars, buffer>>

\* The case `msg := <-respCh` of the select: a reply is taken from the channel
\* and sent on as a frame; from a closed and empty channel msg is nil and
\* nothing is sent.
SelectRecv(f) ==
    /\ IF ch[f].buf # <<>>
       THEN /\ ch' = [ch EXCEPT ![f].buf = Tail(@)]
            /\ sendMessage(ClientOf(f), "", ReplyFrame(Head(ch[f].buf), hreq[f].rid))
       ELSE UNCHANGED <<ch, send, h_out>>
    /\ HandlerReturn(f)

\* The case `<-ctx.Done()` of the select: sendError "Request timeout".
SelectDone(f) ==
    /\ sendMessage(ClientOf(f), "", ErrorFrame(hreq[f].rid, "Request timeout"))
    /\ HandlerReturn(f)
    /\ UNCHANGED ch

\* handleViaAgent: Forward returned the channel and the select is entered. Of
\* the cases that can proceed one is chosen, whichever; when none can, the
\* handler blocks.
handleViaAgentSelect(f) ==
    /\ ~panicked
    /\ hpc[f] = "forward"
    /\ fpc[f] \in {"waiting", "done"}
    /\ IF ch[f].buf = <<>> /\ ~ch[f].closed /\ ~ctxDone[f]
       THEN /\ hpc' = [hpc EXCEPT ![f] = "blocked"]
            /\ UNCHANGED <<ch, send, h_out, ctxDone, pc>>
       ELSE \/ (ch[f].buf # <<>> \/ ch[f].closed) /\ SelectRecv(f)
            \/ ctxDone[f] /\ SelectDone(f)
    /\ UNCHANGED <<ctr, zset, now, lastAckID, req, respCh, h_hist, h_win, h_in, h_recv>>
    /\ UNCHANGED <<agents, apc, agentID, tr, asend, asendClosed, requests, dch,
                   fpc, fcall, panicked, config, h_regs, h_tin, h_first, h_prev>>
    /\ UNCHANGED <<hreq, h_exp>>
    /\ UNCHANGED <<agentVars, supVars, buffer>>

\* handleViaAgent, blocked in the select, proceeds with the case that woke it:
\* the reply put on the channel, or ctx.Done.
handleViaAgentWake(f) ==
    /\ ~panicked
    /\ \/ hpc[f] = "blocked" /\ ch[f].buf # <<>> /\ SelectRecv(f)
       \/ hpc[f] = "timeout" /\ SelectDone(f)
    /\ UNCHANGED <<ctr, zset, now, lastAckID, req, respCh, h_hist, h_win, h_in, h_recv>>
    /\ UNCHANGED <<agents, apc, agentID, tr, asend, asendClosed, requests, dch,
                   fpc, fcall, panicked, config, h_regs, h_tin, h_first, h_prev>>
    /\ UNCHANGED <<hreq, h_exp>>
    /\ UNCHANGED <<agentVars, supVars, buffer>>

\* The deadline of the handler's ctx passes: ctx.Done is closed. A handler
\* blocked in the select with nothing on the channel is woken by it.
Deadline(f) ==
    /\ ~panicked
    /\ hpc[f] \in {"forward", "blocked"}
    /\ ~ctxDone[f]
    /\ ctxDone' = [ctxDone EXCEPT ![f] = TRUE]
    /\ hpc' = [hpc EXCEPT ![f] =
                 IF @ = "blocked" /\ ch[f].buf = <<>> THEN "timeout" ELSE @]
    /\ h_exp' = [h_exp EXCEPT ![f] =
                   /\ ch[f].buf = <<>>
                   /\ ~\E k \in Conns : apc[k] = "dispatch" /\ dch[k].call = f]
    /\ UNCHANGED <<managerVars, hreq>>
    /\ UNCHANGED hubVars
    /\ UNCHANGED <<agentVars, supVars, buffer>>

\* Manager.Forward's watcher, started with the ctx of the handler.
ForwardWatcher(f) ==
    /\ ctxDone[f]
    /\ ForwardCtxDone(f)

\* One client's request through the tunnel: the client that makes it, its
\* Forward call, and the agent connections there are while it runs.
RequestClients == {"c1"}
RequestCalls == {CallOf(c) : c \in RequestClients}
RequestConns == {"k1", "k2"}

NextRequest ==
    \/ \E c \in RequestClients : HandleWebSocket(c)
    \/ \E c \in RequestClients : writePump(c)
    \/ \E k \in RequestConns, type \in {MsgTypeRegister, MsgTypePong},
          id \in AgentIds, token \in Tokens : HandleAgentWebSocket(k, type, id, token)
    \/ \E k \in RequestConns, m \in ReplyMsgs : readPump(k, m)
    \/ \E k \in RequestConns : handleAgentMessage(k)
    \/ \E k \in RequestConns : agentWritePump(k)
    \/ \E k \in RequestConns : TransportFail(k)
    \/ \E k \in RequestConns : readPumpExit(k)
    \/ \E k \in RequestConns : readPumpCleanup(k)
    \/ \E c \in RequestClients, direct \in BOOLEAN :
          \E r \in RequestIdsOf(CallOf(c)) : handleSessionList(c, r, direct)
    \/ \E f \in RequestCalls : handleViaAgent(f)
    \/ \E f \in RequestCalls : ForwardRegister(f)
    \/ \E f \in RequestCalls : ForwardSend(f)
    \/ \E f \in RequestCalls : handleViaAgentFailed(f)
    \/ \E f \in RequestCalls : handleViaAgentSelect(f)
    \/ \E f \in RequestCalls : handleViaAgentWake(f)
    \/ \E f \in RequestCalls : Deadline(f)
    \/ \E f \in RequestCalls : ForwardWatcher(f)

SpecRequest == Init /\ [][NextRequest]_vars

\* ----------------------------------------------- the Agent's tunnel client

min(a, b) == IF a < b THEN a ELSE b

\* What the Hub can answer a register frame with: the read fails, or a frame
\* arrives that is agent.registered with success true or false, or another type.
RegReplies ==
    {[read |-> "error", type |-> "", success |-> FALSE]}
        \cup [read : {"ok"}, type : {MsgTypeRegistered}, success : BOOLEAN]
        \cup [read : {"ok"}, type : {MsgTypePing}, success : {FALSE}]

\* Run, one turn of its loop: connectAndRun is called and dials the Hub. When
\* the dial or the write of the register frame fails, connectAndRun returns
\* the error; otherwise the register frame is sent and the reply awaited.
Dial(ok) ==
    /\ cstate = "idle"
    /\ h_att < MaxAttempts
    /\ h_att' = h_att + 1
    /\ IF ok
       THEN /\ aconn' = "open"
            /\ cstate' = "registering"
            /\ UNCHANGED <<err, h_end>>
       ELSE /\ err' = "error"
            /\ h_end' = "dial"
            /\ cstate' = "returned"
            /\ UNCHANGED aconn
    /\ UNCHANGED <<reconnectDelay, tpc, treq, rwrite, h_rin, h_emit>>
    /\ UNCHANGED <<hubVars, tunnelVars, supVars>>

\* connectAndRun: the reply to the register frame is read. A read error is
\* returned. For a frame of another type, and for success=false, the
\* function executes `return err` where err is the dial's error, which is
\* nil. With success=true reconnectDelay is reset and readLoop entered. On
\* every return the deferred conn.Close() runs.
RegReply(reply) ==
    /\ cstate = "registering"
    /\ IF reply.read = "error"
       THEN /\ err' = "error" /\ h_end' = "read"
            /\ cstate' = "returned" /\ aconn' = "closed"
            /\ UNCHANGED reconnectDelay
       ELSE IF reply.type # MsgTypeRegistered
       THEN /\ err' = "nil" /\ h_end' = "other"
            /\ cstate' = "returned" /\ aconn' = "closed"
            /\ UNCHANGED reconnectDelay
       ELSE IF ~reply.success
       THEN /\ err' = "nil" /\ h_end' = "refused"
            /\ cstate' = "returned" /\ aconn' = "closed"
            /\ UNCHANGED reconnectDelay
       ELSE /\ reconnectDelay' = Second
            /\ cstate' = "ready" /\ h_end' = "ready"
            /\ UNCHANGED <<err, aconn>>
    /\ UNCHANGED <<tpc, treq, rwrite, h_att, h_rin, h_emit>>
    /\ UNCHANGED <<hubVars, tunnelVars, supVars>>

\* readLoop: ReadJSON fails (the connection is lost); readLoop and
\* connectAndRun return the error and the deferred conn.Close() runs.
readLoopError ==
    /\ cstate = "ready"
    /\ ~rwrite
    /\ err' = "error" /\ h_end' = "lost"
    /\ cstate' = "returned" /\ aconn' = "closed"
    /\ UNCHANGED <<reconnectDelay, tpc, treq, rwrite, h_att, h_rin, h_emit>>
    /\ UNCHANGED <<hubVars, tunnelVars, supVars>>

\* Run, after connectAndRun returned: with an error it logs and waits
\* reconnectDelay; with nil it sets reconnectDelay to one second and loops.
RunReturned ==
    /\ cstate = "returned"
    /\ IF err # "nil"
       THEN cstate' = "backoff" /\ UNCHANGED reconnectDelay
       ELSE cstate' = "idle" /\ reconnectDelay' = Second
    /\ UNCHANGED <<err, aconn, tpc, treq, rwrite, h_att, h_end, h_rin, h_emit>>
    /\ UNCHANGED <<hubVars, tunnelVars, supVars>>

\* Run: time.After(reconnectDelay) fires; the delay is doubled up to
\* maxReconnect and the loop continues.
RunBackoff ==
    /\ cstate = "backoff"
    /\ reconnectDelay' = min(reconnectDelay * 2, maxReconnect)
    /\ cstate' = "idle"
    /\ UNCHANGED <<err, aconn, tpc, treq, rwrite, h_att, h_end, h_rin, h_emit>>
    /\ UNCHANGED <<hubVars, tunnelVars, supVars>>

\* Run: ctx is done, seen at the top of the loop or during the wait.
RunCtxDone ==
    /\ cstate \in {"idle", "backoff"}
    /\ cstate' = "stopped"
    /\ UNCHANGED <<reconnectDelay, err, aconn, tpc, treq, rwrite,
                   h_att, h_end, h_rin, h_emit>>
    /\ UNCHANGED <<hubVars, tunnelVars, supVars>>

NextAgent ==
    \/ \E ok \in BOOLEAN : Dial(ok)
    \/ \E reply \in RegReplies : RegReply(reply)
    \/ readLoopError
    \/ RunReturned
    \/ RunBackoff
    \/ RunCtxDone

SpecAgent == Init /\ [][NextAgent]_vars

\* ------------------------------------------ the Agent's request handlers

\* Actions of a request, what the handler meets (the project has no OpenCode
\* URL, the call is done, the server cannot be reached, the server answers
\* with an error status), and the text parts of the answer to a prompt.
Actions == {"project.start", "session.list", "session.delete", "prompt"}
Outcomes == {"ok", "nourl", "unreachable", "status"}
Parts == {<<"a">>, <<"a", "b">>}

\* The agent.request frames the Hub sends: a payload that does not parse, or
\* an action with the outcome its handler will meet.
AgentRequests ==
    {r \in [id : RequestIds, valid : BOOLEAN, action : Actions,
            outcome : Outcomes, parts : Parts \cup {<<>>}] :
        /\ (~r.valid => r.action = "project.start" /\ r.outcome = "ok")
        /\ (r.action = "project.start" => r.outcome \in {"ok", "unreachable"})
        /\ (r.parts # <<>>) = (r.valid /\ r.action = "prompt" /\ r.outcome = "ok")}

\* The frames the reader reads in readLoop.
HubFrames ==
    {[type |-> MsgTypePing, req |-> Nil]}
        \cup [type : {MsgTypeRequest}, req : AgentRequests]

\* opencode.Client.HandleRequestWithURL: the chunks its goroutine puts on the
\* channel before closing it. It never returns an error. session.list:
\* nothing when the server cannot be reached, else the body read, whatever the
\* status. session.delete: an error payload or the success payload. prompt:
\* nothing when the server cannot be reached, an error payload on a bad
\* status, else one chunk for each text part.
HandleRequestWithURL(action, outcome, parts) ==
    IF action = "session.list"
    THEN IF outcome = "unreachable" THEN <<>>
         ELSE IF outcome = "ok" THEN <<"sessions">> ELSE <<"errBody">>
    ELSE IF action = "session.delete"
    THEN IF outcome = "ok" THEN <<"success">> ELSE <<"errPayload">>
    ELSE IF outcome = "unreachable" THEN <<>>
    ELSE IF outcome = "ok" THEN parts ELSE <<"errPayload">>

\* `for chunk := range streamCh { responseData = chunk }`: the last chunk, nil
\* when there was none.
LastChunk(chunks) == IF chunks = <<>> THEN Nil ELSE chunks[Len(chunks)]

\* The other tasks, the reader included, that are inside WriteJSON.
Writers == {t \in Tasks : tpc[t] = "write"} \cup (IF rwrite THEN {"reader"} ELSE {})

\* readLoop, one turn: a frame is read. For a ping the reader writes a pong
\* itself; for a request it starts a goroutine running handleRequest.
readLoop(msg) ==
    /\ cstate = "ready"
    /\ ~rwrite
    /\ h_rin < MaxAgentReads
    /\ h_rin' = h_rin + 1
    /\ IF msg.type = MsgTypePing
       THEN /\ rwrite' = TRUE
            /\ \/ UNCHANGED cstate
               \/ Writers # {} /\ cstate' = "crashed"
            /\ UNCHANGED <<tpc, treq>>
       ELSE /\ \E t \in Tasks :
                  /\ tpc[t] = "none"
                  /\ \A u \in EarlierTasks(t) : tpc[u] # "none"
                  /\ tpc' = [tpc EXCEPT ![t] = "run"]
                  /\ treq' = [treq EXCEPT ![t] =
                        [id |-> msg.req.id, valid |-> msg.req.valid,
                         action |-> msg.req.action, outcome |-> msg.req.outcome,
                         parts |-> msg.req.parts, called |-> FALSE,
                         chunks |-> <<>>, frame |-> Nil, last |-> FALSE]]
            /\ UNCHANGED <<rwrite, cstate>>
    /\ UNCHANGED <<reconnectDelay, err, aconn, h_att, h_end, h_emit>>
    /\ UNCHANGED <<hubVars, tunnelVars, supVars>>

\* readLoop: the WriteJSON of the pong returns.
readLoopPong ==
    /\ cstate = "ready"
    /\ rwrite
    /\ rwrite' = FALSE
    /\ UNCHANGED <<cstate, reconnectDelay, err, aconn, tpc, treq,
                   h_att, h_end, h_rin, h_emit>>
    /\ UNCHANGED <<hubVars, tunnelVars, supVars>>

\* The frame a handler is about to write, and whether it is its last:
\* handleRequest's sendError for a payload that does not parse;
\* handleProjectStart's response or sendError; handleOpenCodeRequest's stream
\* frame for the next chunk and stream.end after the last when the action is
\* "prompt", its one response frame with the last chunk otherwise, and its
\* sendError when GetOpenCodeURL fails.
NextFrame(r) ==
    IF ~r.valid
    THEN [type |-> MsgTypeError, id |-> r.id, payload |-> "invalid request payload",
          last |-> TRUE]
    ELSE IF r.action = "project.start"
    THEN IF r.outcome = "ok"
         THEN [type |-> MsgTypeResponse, id |-> r.id, payload |-> "project", last |-> TRUE]
         ELSE [type |-> MsgTypeError, id |-> r.id, payload |-> "err", last |-> TRUE]
    ELSE IF r.outcome = "nourl"
    THEN [type |-> MsgTypeError, id |-> r.id, payload |-> "err", last |-> TRUE]
    ELSE IF r.action = "prompt"
    THEN IF r.chunks # <<>>
         THEN [type |-> MsgTypeStream, id |-> r.id, payload |-> Head(r.chunks),
               last |-> FALSE]
         ELSE [type |-> MsgTypeStreamEnd, id |-> r.id, payload |-> Nil, last |-> TRUE]
    ELSE [type |-> MsgTypeResponse, id |-> r.id, payload |-> LastChunk(r.chunks),
          last |-> TRUE]

\* handleRequest and the handler it dispatches to, up to the next call of
\* c.conn.WriteJSON: on its first turn handleOpenCodeRequest calls
\* HandleRequest; then the frame is built and WriteJSON entered. Nothing
\* keeps two goroutines from being inside WriteJSON of the one connection
\* together; the websocket package then panics, or does not.
handleRequest(t) ==
    /\ cstate = "ready"
    /\ tpc[t] = "run"
    /\ LET r == IF treq[t].called THEN treq[t]
                ELSE [treq[t] EXCEPT !.called = TRUE,
                        !.chunks = IF treq[t].outcome = "nourl" THEN <<>>
                                   ELSE HandleRequestWithURL(treq[t].action,
                                            treq[t].outcome, treq[t].parts)]
           f == NextFrame(r)
       IN /\ treq' = [treq EXCEPT ![t] =
                        [r EXCEPT !.frame = [type |-> f.type, id |-> f.id,
                                             payload |-> f.payload],
                                  !.last = f.last,
                                  !.chunks = IF f.type = MsgTypeStream
                                             THEN Tail(r.chunks) ELSE r.chunks]]
          /\ tpc' = [tpc EXCEPT ![t] = "write"]
    /\ \/ UNCHANGED cstate
       \/ Writers # {} /\ cstate' = "crashed"
    /\ UNCHANGED <<reconnectDelay, err, aconn, rwrite, h_att, h_end, h_rin, h_emit>>
    /\ UNCHANGED <<hubVars, tunnelVars, supVars>>

\* c.conn.WriteJSON returns: the frame is on the transport, or, with the
\* connection closed, the error is dropped. After its last frame the handler
\* returns.
WriteJSON(t) ==
    /\ cstate = "ready"
    /\ tpc[t] = "write"
    /\ h_emit' = [h_emit EXCEPT ![t] =
                    IF aconn = "open" THEN Append(@, treq[t].frame) ELSE @]
    /\ tpc' = [tpc EXCEPT ![t] = IF treq[t].last THEN "done" ELSE "run"]
    /\ UNCHANGED <<cstate, reconnectDelay, err, aconn, treq, rwrite,
                   h_att, h_end, h_rin>>
    /\ UNCHANGED <<hubVars, tunnelVars, supVars>>

\* The Agent on its first connection: it dials, registers, and serves the
\* frames the Hub sends.
NextDispatch ==
    \/ \E ok \in BOOLEAN : Dial(ok)
    \/ \E reply \in RegReplies : RegReply(reply)
    \/ \E msg \in HubFrames : readLoop(msg)
    \/ readLoopPong
    \/ \E t \in Tasks : handleRequest(t)
    \/ \E t \in Tasks : WriteJSON(t)

SpecDispatch == Init /\ [][NextDispatch]_vars

\* Admission alone: connections arrive, are admitted or refused, fail and are
\* cleaned up, with the token check configured or disabled.
NextAdmission ==
    \/ \E k \in Conns, type \in {MsgTypeRegister, MsgTypePong},
          id \in AgentIds, token \in Tokens : HandleAgentWebSocket(k, type, id, token)
    \/ \E k \in Conns : TransportFail(k)
    \/ \E k \in Conns : readPumpExit(k)
    \/ \E k \in Conns : readPumpCleanup(k)

SpecAdmission == InitAdmission /\ [][NextAdmission]_vars

\* ------------------------------------------- the Hub without its buffer

\* Redis stops answering, or answers again, while the Hub runs with the
\* RedisBuffer; a Hub started with the NoopBuffer keeps it.
RedisFail ==
    /\ buffer = "redis"
    /\ buffer' = "down"
    /\ UNCHANGED <<ctr, zset, now, pc, send, lastAckID, req, respCh,
                   h_hist, h_win, h_out, h_in, h_recv>>
    /\ UNCHANGED <<tunnelVars, agentVars, supVars>>

RedisRecover ==
    /\ buffer = "down"
    /\ buffer' = "redis"
    /\ UNCHANGED <<ctr, zset, now, pc, send, lastAckID, req, respCh,
                   h_hist, h_win, h_out, h_in, h_recv>>
    /\ UNCHANGED <<tunnelVars, agentVars, supVars>>

\* handleViaAgentStream, one turn of the loop for a stream or stream.end frame
\* when Push stores nothing: NoopBuffer.Push returns 0, nil and RedisBuffer.Push
\* returns 0 and an error when its INCR fails. The error is discarded
\* (msgID, _ := ...) and the handler goes on to send the frame.
StreamRecvDegraded(c) ==
    /\ pc[c] = "stream"
    /\ respCh[c] # <<>>
    /\ buffer \in {"noop", "down"}
    /\ Head(respCh[c]).type \in {MsgTypeStream, MsgTypeStreamEnd}
    /\ LET msg == Head(respCh[c])
           bufMsg == [id |-> 0,
                      type |-> IF msg.type = MsgTypeStream THEN "stream"
                               ELSE "stream.end",
                      requestId |-> req[c].rid,
                      payload |-> IF msg.type = MsgTypeStream THEN msg.payload
                                  ELSE Nil,
                      timestamp |-> 0]
       IN /\ respCh' = [respCh EXCEPT ![c] = Tail(@)]
          /\ req' = [req EXCEPT ![c].ent = bufMsg, ![c].msgID = 0]
          /\ pc' = [pc EXCEPT ![c] = "emit"]
    /\ UNCHANGED <<ctr, zset, now, send, lastAckID, h_hist, h_win, h_out, h_in>>
    /\ UNCHANGED h_recv
    /\ UNCHANGED tunnelVars
    /\ UNCHANGED <<agentVars, supVars, buffer>>

\* RedisBuffer.Push whose INCR succeeded and whose ZADD fails: the counter keeps
\* the id, the sorted set gets no member, Push returns 0 and an error, which
\* the handler discards.
StreamPushedFailed(c) ==
    /\ pc[c] = "push"
    /\ buffer = "down"
    /\ req' = [req EXCEPT ![c].msgID = 0]
    /\ pc' = [pc EXCEPT ![c] = "emit"]
    /\ UNCHANGED <<ctr, zset, now, send, lastAckID, respCh,
                   h_hist, h_win, h_out, h_in>>
    /\ UNCHANGED h_recv
    /\ UNCHANGED tunnelVars
    /\ UNCHANGED <<agentVars, supVars, buffer>>

\* handleSync when GetSince does not read Redis. NoopBuffer.GetSince returns
\* nil, nil: the handler goes on with a nil slice. RedisBuffer.GetSince returns
\* an error when ZRANGEBYSCORE fails: the handler sends the error frame
\* "Failed to sync: ..." and returns.
handleSyncDegraded(c, requestID, sessionID, lastAckId) ==
    /\ pc[c] = "idle"
    /\ buffer \in {"noop", "down"}
    /\ h_in < MaxIn
    /\ h_in' = h_in + 1
    /\ IF buffer = "noop"
       THEN /\ req' = [req EXCEPT ![c] =
                          [NoReq EXCEPT !.sid = sessionID, !.rid = requestID,
                                        !.after = lastAckId, !.msgs = Nil]]
            /\ pc' = [pc EXCEPT ![c] = "sync"]
            /\ UNCHANGED <<send, h_out>>
       ELSE /\ sendMessage(c, sessionID, ErrorFrame(requestID, "Failed to sync"))
            /\ UNCHANGED <<req, pc>>
    /\ UNCHANGED <<ctr, zset, now, lastAckID, respCh, h_hist, h_win>>
    /\ UNCHANGED h_recv
    /\ UNCHANGED tunnelVars
    /\ UNCHANGED <<agentVars, supVars, buffer>>

\* handleSync after GetSince when GetLatestID does not read Redis: the
\* NoopBuffer returns 0, nil, a failing GET returns 0 and an error that is
\* discarded (latestID, _ := ...). The sync.batch carries 0 as latestId; the
\* nil slice of the NoopBuffer is marshalled as null.
SyncReplyDegraded(c) ==
    /\ pc[c] = "sync"
    /\ buffer \in {"noop", "down"}
    /\ sendMessage(c, req[c].sid,
           MarshalServerMessage("sync.batch", req[c].rid, 0, Nil,
                                IF buffer = "noop" THEN Null ELSE req[c].msgs, 0))
    /\ pc' = [pc EXCEPT ![c] = "idle"]
    /\ req' = [req EXCEPT ![c] = NoReq]
    /\ UNCHANGED <<ctr, zset, now, lastAckID, respCh, h_hist, h_win, h_in>>
    /\ UNCHANGED h_recv
    /\ UNCHANGED tunnelVars
    /\ UNCHANGED <<agentVars, supVars, buffer>>

\* The client server with either buffer, Redis failing and recovering, serving
\* one client connection.
DegradedClients == {"c1"}

NextDegraded ==
    \/ \E c \in DegradedClients : HandleWebSocket(c)
    \/ \E c \in DegradedClients : writePump(c)
    \/ \E c \in DegradedClients, s \in HubSessions : handlePrompt(c, RequestIdOf(c), s)
    \/ \E c \in DegradedClients, m \in AgentFrames : deliverReply(c, m)
    \/ \E c \in DegradedClients : StreamRecv(c)
    \/ \E c \in DegradedClients : StreamPushed(c)
    \/ \E c \in DegradedClients : StreamEmit(c)
    \/ \E c \in DegradedClients, s \in HubSessions, a \in AckIds :
           handleSync(c, RequestIdOf(c), s, a)
    \/ \E c \in DegradedClients : SyncReply(c)
    \/ \E c \in DegradedClients, m \in AckIds : handleAck(c, m)
    \/ \E s \in Sessions : TTLExpire(s)
    \/ RedisFail
    \/ RedisRecover
    \/ \E c \in DegradedClients : StreamRecvDegraded(c)
    \/ \E c \in DegradedClients : StreamPushedFailed(c)
    \/ \E c \in DegradedClients, s \in HubSessions, a \in AckIds :
           handleSyncDegraded(c, RequestIdOf(c), s, a)
    \/ \E c \in DegradedClients : SyncReplyDegraded(c)

SpecDegraded == InitDegraded /\ [][NextDegraded]_vars

\* ------------------------------------------------------------ the port pool

SetMin(S) == CHOOSE x \in S : \A y \in S : x <= y
SetHighest(S) == CHOOSE x \in S : \A y \in S : x >= y

\* The ports the map m holds for a path, m with an entry written, and m with
\* an entry deleted.
Holders(m, projectPath) == {port \in DOMAIN m : m[port] = projectPath}
Put(m, port, projectPath) ==
    [x \in DOMAIN m \cup {port} |-> IF x = port THEN projectPath ELSE m[x]]
Delete(m, port) == [x \in DOMAIN m \ {port} |-> m[x]]

\* AcquireAvailable with the scan of the range taking the highest candidate.
AcquireAvailableHighest(m, projectPath, inUse) ==
    IF Holders(m, projectPath) # {}
    THEN {[port |-> port, err |-> "nil", m |-> m] : port \in Holders(m, projectPath)}
    ELSE LET free == {port \in Ports : port \notin DOMAIN m /\ port \notin inUse}
         IN  IF free = {}
             THEN {[port |-> 0, err |-> ErrAllPortsInUse, m |-> m]}
             ELSE {[port |-> SetHighest(free), err |-> "nil",
                    m |-> Put(m, SetHighest(free), projectPath)]}

\* Acquire without the first loop, the search for the path's reservation.
AcquireNoLookup(m, projectPath) ==
    LET free == {port \in Ports : port \notin DOMAIN m}
    IN  IF free = {}
        THEN {[port |-> 0, err |-> ErrNoAvailablePort, m |-> m]}
        ELSE {[port |-> SetMin(free), err |-> "nil",
               m |-> Put(m, SetMin(free), projectPath)]}

\* PortPool.Acquire on the map m: what it can return and the map it leaves.
\* The first loop ranges over a Go map, so with several entries of the path
\* any of them can be the one returned; the second loop scans the range upward.
Acquire(m, projectPath) ==
    IF Holders(m, projectPath) # {}
    THEN {[port |-> port, err |-> "nil", m |-> m] : port \in Holders(m, projectPath)}
    ELSE LET free == {port \in Ports : port \notin DOMAIN m}
         IN  IF free = {}
             THEN {[port |-> 0, err |-> ErrNoAvailablePort, m |-> m]}
             ELSE {[port |-> SetMin(free), err |-> "nil",
                    m |-> Put(m, SetMin(free), projectPath)]}

\* PortPool.AcquireAvailable: as Acquire, skipping the ports for which
\* checker.IsPortInUse answers true (inUse).
AcquireAvailable(m, projectPath, inUse) ==
    IF Holders(m, projectPath) # {}
    THEN {[port |-> port, err |-> "nil", m |-> m] : port \in Holders(m, projectPath)}
    ELSE LET free == {port \in Ports : port \notin DOMAIN m /\ port \notin inUse}
         IN  IF free = {}
             THEN {[port |-> 0, err |-> ErrAllPortsInUse, m |-> m]}
             ELSE {[port |-> SetMin(free), err |-> "nil",
                    m |-> Put(m, SetMin(free), projectPath)]}

\* PortPool.Release
Release(m, port) ==
    IF port \notin DOMAIN m
    THEN [err |-> ErrPortNotInUse, m |-> m]
    ELSE [err |-> "nil", m |-> Delete(m, port)]

\* The record of a call to the pool; n tells a call from the one before it.
PoolCall(op, projectPath, port, e, inUse) ==
    [op |-> op, path |-> projectPath, port |-> port, err |-> e, inUse |-> inUse,
     n |-> 1 - h_acq.n]

poolRest == <<launcher, instances, spc, worker, occupied, sret, h_probe>>

\* A caller of the pool: each call runs under PortPool.mu, start to end.
CallAcquire(projectPath) ==
    /\ \E r \in Acquire(portToProject, projectPath) :
        /\ portToProject' = r.m
        /\ h_acq' = PoolCall("Acquire", projectPath, r.port, r.err, {})
    /\ UNCHANGED <<hubVars, tunnelVars, agentVars, poolRest, procVars>>

CallAcquireAvailable(projectPath, inUse) ==
    /\ \E r \in AcquireAvailable(portToProject, projectPath, inUse) :
        /\ portToProject' = r.m
        /\ h_acq' = PoolCall("AcquireAvailable", projectPath, r.port, r.err, inUse)
    /\ UNCHANGED <<hubVars, tunnelVars, agentVars, poolRest, procVars>>

CallRelease(port) ==
    /\ LET r == Release(portToProject, port)
       IN  /\ portToProject' = r.m
           /\ h_acq' = PoolCall("Release", "", port, r.err, {})
    /\ UNCHANGED <<hubVars, tunnelVars, agentVars, poolRest, procVars>>

\* The pool alone, under callers that reserve for any path, with any probe
\* answers, and release any port.
NextPool ==
    \/ \E projectPath \in Paths : CallAcquire(projectPath)
    \/ \E projectPath \in Paths, inUse \in SUBSET Ports :
          CallAcquireAvailable(projectPath, inUse)
    \/ \E port \in PortSpace : CallRelease(port)

SpecPool == Init /\ [][NextPool]_vars

\* ------------------------------------------------- the worker supervisor

\* itoa: the decimal digits of a positive number, and "0" for zero.
RECURSIVE Digits(_)
Digits(i) == IF i = 0 THEN <<>> ELSE Append(Digits(i \div 10), i % 10)
itoa(i) == IF i = 0 THEN <<0>> ELSE Digits(i)

\* Instance.OpenCodeURL: "" without a port, else "http://localhost:" followed
\* by the digits of the port.
OpenCodeURL(inst) ==
    IF inst.Port = 0 THEN <<>> ELSE <<"http://localhost:">> \o itoa(inst.Port)

\* Manager.validatePath
validatePath(path) == IF path \in AllowedPaths THEN "nil" ELSE "path not in whitelist"

\* GET /global/health on a port answers 200: a healthy worker serves the
\* port, or another process does (IsPortInUse, and the probe of WaitForHealth).
Listening(port) ==
    \/ port \in occupied
    \/ \E name \in DOMAIN worker :
          worker[name].state = "healthy" /\ worker[name].port = port

\* the count Start makes of the running instances
runningCount == Cardinality({path \in DOMAIN instances :
                                instances[path].Status = StatusRunning})

\* The record of a call that returned; n tells a RefreshStatus, or a Start
\* of the same path, from the one before it.
Return(op, path, e, inst, url) ==
    [op |-> op, path |-> path, err |-> e, status |-> "", inst |-> inst, url |-> url,
     n |-> IF op \in {"RefreshStatus", "Start"} /\ sret.op = op /\ sret.path = path
           THEN 1 - sret.n ELSE 0]

\* A Manager whose methods do not take Manager.mu.
NeverLocked == FALSE

\* Manager.mu is held by a Start from its lookup to its return.
Locked == spc.pc # "idle"

\* WaitForHealth that gives up waiting and reports success.
WaitForHealthTimeoutAsSuccess ==
    /\ spc.pc = "waiting" /\ spc.polls = MaxPolls
    /\ instances' = [instances EXCEPT ![spc.path].Status = StatusRunning,
                                      ![spc.path].StartedAt = "set"]
    /\ sret' = Return("Start", spc.path, "nil", instances'[spc.path], <<>>)
    /\ spc' = NoStart
    /\ UNCHANGED <<launcher, portToProject, worker, occupied, h_acq, h_probe>>
    /\ UNCHANGED <<hubVars, tunnelVars, agentVars, procVars>>

\* Manager.Start, up to the launch: the whitelist check, then under Manager.mu
\* the lookup, the early return for a running instance, the count of running
\* instances, the reservation of a port and the mark "starting". The lock is
\* held until Start returns.
Start(path) ==
    /\ IF validatePath(path) # "nil"
       THEN /\ sret' = Return("Start", path, validatePath(path), NoInstance, <<>>)
            /\ UNCHANGED <<instances, portToProject, spc, h_acq, h_probe>>
       ELSE /\ ~Locked
            /\ IF path \notin DOMAIN instances
               THEN /\ sret' = Return("Start", path, "project not found", NoInstance, <<>>)
                    /\ UNCHANGED <<instances, portToProject, spc, h_acq, h_probe>>
               ELSE IF instances[path].Status = StatusRunning
               THEN /\ sret' = Return("Start", path, "nil", instances[path], <<>>)
                    /\ UNCHANGED <<instances, portToProject, spc, h_acq, h_probe>>
               ELSE IF runningCount >= MaxInstances
               THEN /\ sret' = Return("Start", path, "max instances reached", NoInstance, <<>>)
                    /\ UNCHANGED <<instances, portToProject, spc, h_acq, h_probe>>
               ELSE \E r \in IF launcher = "docker"
                             THEN AcquireAvailable(portToProject, path,
                                                   {port \in Ports : Listening(port)})
                             ELSE Acquire(portToProject, path) :
                    /\ portToProject' = r.m
                    /\ h_acq' = PoolCall(IF launcher = "docker" THEN "AcquireAvailable"
                                         ELSE "Acquire", path, r.port, r.err,
                                         IF launcher = "docker"
                                         THEN {port \in Ports : Listening(port)}
                                         ELSE {})
                    /\ h_probe' = 0
                    /\ IF r.err # "nil"
                       THEN /\ sret' = Return("Start", path, "failed to acquire port",
                                              NoInstance, <<>>)
                            /\ UNCHANGED <<instances, spc>>
                       ELSE /\ instances' =
                                [instances EXCEPT ![path].Status = StatusStarting,
                                                  ![path].Port = r.port,
                                                  ![path].Error = ""]
                            /\ spc' = [pc |-> "launching", path |-> path,
                                       port |-> r.port, polls |-> 0]
                            /\ UNCHANGED sret
    /\ UNCHANGED <<launcher, worker, occupied>>
    /\ UNCHANGED <<hubVars, tunnelVars, agentVars, procVars>>

\* Start, the launch (StartContainer / StartSession). A tmux session of the
\* name that still exists makes new-session fail; an existing container is
\* started again, keeping the port it was created with, or (fresh) removed
\* and replaced. On a failure Start marks the instance, releases the port and
\* returns; the launcher has then removed an existing container (fresh) or,
\* its commands not having run, left it.
StartContainer(ok, fresh) ==
    /\ spc.pc = "launching"
    /\ launcher = "tmux" /\ worker[spc.path].state # "gone" => ~ok
    /\ worker[spc.path].state = "gone" => fresh
    /\ launcher = "tmux" => fresh = (worker[spc.path].state = "gone")
    /\ IF ok
       THEN /\ worker' = IF fresh
                         THEN [worker EXCEPT ![spc.path] =
                                  [state |-> "up", port |-> spc.port]]
                         ELSE worker
            /\ spc' = [spc EXCEPT !.pc = "waiting"]
            /\ UNCHANGED <<instances, portToProject, sret, h_acq>>
       ELSE /\ worker' = IF fresh
                         THEN [worker EXCEPT ![spc.path] =
                                  [state |-> "gone", port |-> 0]]
                         ELSE worker
            /\ instances' = [instances EXCEPT ![spc.path].Status = StatusError,
                                              ![spc.path].Error = "launch"]
            /\ portToProject' = Release(portToProject, spc.port).m
            /\ h_acq' = PoolCall("Release", "", spc.port,
                                 Release(portToProject, spc.port).err, {})
            /\ sret' = Return("Start", spc.path, "launch", instances'[spc.path], <<>>)
            /\ spc' = NoStart
    /\ UNCHANGED <<launcher, occupied, h_probe>>
    /\ UNCHANGED <<hubVars, tunnelVars, agentVars, procVars>>

\* WaitForHealth, a probe that is answered 200: Start marks the instance
\* running and returns it.
WaitForHealthOK ==
    /\ spc.pc = "waiting" /\ spc.polls < MaxPolls
    /\ Listening(spc.port)
    /\ h_probe' = h_probe + 1
    /\ instances' = [instances EXCEPT ![spc.path].Status = StatusRunning,
                                      ![spc.path].StartedAt = "set"]
    /\ sret' = Return("Start", spc.path, "nil", instances'[spc.path], <<>>)
    /\ spc' = NoStart
    /\ UNCHANGED <<launcher, portToProject, worker, occupied, h_acq>>
    /\ UNCHANGED <<hubVars, tunnelVars, agentVars, procVars>>

\* WaitForHealth, a probe that is not answered: sleep and poll again.
WaitForHealthPoll ==
    /\ spc.pc = "waiting" /\ spc.polls < MaxPolls
    /\ ~Listening(spc.port)
    /\ spc' = [spc EXCEPT !.polls = @ + 1]
    /\ UNCHANGED <<launcher, instances, portToProject, worker, occupied,
                   sret, h_acq, h_probe>>
    /\ UNCHANGED <<hubVars, tunnelVars, agentVars, procVars>>

\* WaitForHealth, the deadline has passed: the timeout error. The docker
\* Manager stops the container and releases the port; the tmux Manager does
\* neither.
WaitForHealthTimeout ==
    /\ spc.pc = "waiting" /\ spc.polls = MaxPolls
    /\ instances' = [instances EXCEPT ![spc.path].Status = StatusError,
                                      ![spc.path].Error = "timeout"]
    /\ IF launcher = "docker"
       THEN /\ worker' = [worker EXCEPT ![spc.path] = [state |-> "gone", port |-> 0]]
            /\ portToProject' = Release(portToProject, spc.port).m
            /\ h_acq' = PoolCall("Release", "", spc.port,
                                 Release(portToProject, spc.port).err, {})
       ELSE UNCHANGED <<worker, portToProject, h_acq>>
    /\ sret' = Return("Start", spc.path, "timeout", instances'[spc.path], <<>>)
    /\ spc' = NoStart
    /\ UNCHANGED <<launcher, occupied, h_probe>>
    /\ UNCHANGED <<hubVars, tunnelVars, agentVars, procVars>>

\* WaitForHealth, ctx is done at the top of the loop: ctx.Err(). The docker
\* Manager calls StopContainer with the same ctx, whose commands do not run
\* under a context that is done, and releases the port; the tmux Manager does
\* neither.
WaitForHealthCanceled ==
    /\ spc.pc = "waiting" /\ spc.polls < MaxPolls
    /\ instances' = [instances EXCEPT ![spc.path].Status = StatusError,
                                      ![spc.path].Error = "context canceled"]
    /\ IF launcher = "docker"
       THEN /\ portToProject' = Release(portToProject, spc.port).m
            /\ h_acq' = PoolCall("Release", "", spc.port,
                                 Release(portToProject, spc.port).err, {})
       ELSE UNCHANGED <<portToProject, h_acq>>
    /\ sret' = Return("Start", spc.path, "context canceled", instances'[spc.path], <<>>)
    /\ spc' = NoStart
    /\ UNCHANGED <<launcher, worker, occupied, h_probe>>
    /\ UNCHANGED <<hubVars, tunnelVars, agentVars, procVars>>

\* Manager.Stop. res is what the launcher's stop reports: "stopped", "gone"
\* (No such container / session not found, taken as success) or "failed".
Stop(path, res) ==
    /\ ~Locked
    /\ IF path \notin DOMAIN instances
       THEN /\ sret' = Return("Stop", path, "project not found", NoInstance, <<>>)
            /\ UNCHANGED <<instances, portToProject, worker, h_acq>>
       ELSE IF instances[path].Status = StatusStopped
       THEN /\ sret' = Return("Stop", path, "nil", NoInstance, <<>>)
            /\ UNCHANGED <<instances, portToProject, worker, h_acq>>
       ELSE /\ res = "gone" <=> worker[path].state = "gone"
            /\ IF res = "failed"
               THEN /\ sret' = Return("Stop", path, "failed to stop", NoInstance, <<>>)
                    /\ UNCHANGED <<instances, portToProject, worker, h_acq>>
               ELSE /\ worker' = [worker EXCEPT ![path] = [state |-> "gone", port |-> 0]]
                    /\ IF instances[path].Port > 0
                       THEN /\ portToProject' =
                                  Release(portToProject, instances[path].Port).m
                            /\ h_acq' = PoolCall("Release", "", instances[path].Port,
                                  Release(portToProject, instances[path].Port).err, {})
                       ELSE UNCHANGED <<portToProject, h_acq>>
                    /\ instances' = [instances EXCEPT ![path] =
                          [Status |-> StatusStopped, Port |-> 0, Error |-> "",
                           StartedAt |-> "zero"]]
                    /\ sret' = Return("Stop", path, "nil", NoInstance, <<>>)
    /\ UNCHANGED <<launcher, spc, occupied, h_probe>>
    /\ UNCHANGED <<hubVars, tunnelVars, agentVars, procVars>>

\* Manager.GetOpenCodeURL
GetOpenCodeURL(path) ==
    /\ ~Locked
    /\ sret' = IF path \notin DOMAIN instances
               THEN Return("GetOpenCodeURL", path, "project not found", NoInstance, <<>>)
               ELSE IF instances[path].Status # StatusRunning
               THEN [Return("GetOpenCodeURL", path, "project not running",
                            NoInstance, <<>>)
                        EXCEPT !.status = instances[path].Status]
               ELSE Return("GetOpenCodeURL", path, "nil", NoInstance,
                           OpenCodeURL(instances[path]))
    /\ UNCHANGED <<launcher, instances, portToProject, spc, worker, occupied,
                   h_acq, h_probe>>
    /\ UNCHANGED <<hubVars, tunnelVars, agentVars, procVars>>

\* The instances RefreshStatus finds without a worker: ContainerRunning /
\* SessionExists is false when the worker is gone and when the command that
\* asks fails (cmdOK is false).
Vanished(cmdOK) ==
    {path \in DOMAIN instances :
        /\ instances[path].Status \in {StatusRunning, StatusStarting}
        /\ ~(cmdOK /\ worker[path].state # "gone")}

\* Manager.RefreshStatus
RefreshStatus(cmdOK) ==
    /\ ~Locked
    /\ instances' = [path \in DOMAIN instances |->
                        IF path \in Vanished(cmdOK)
                        THEN [Status |-> StatusStopped, Port |-> 0, Error |-> "",
                              StartedAt |-> "zero"]
                        ELSE instances[path]]
    /\ portToProject' =
          [port \in DOMAIN portToProject \
                    {instances[path].Port : path \in Vanished(cmdOK)}
              |-> portToProject[port]]
    /\ sret' = Return("RefreshStatus", "", "nil", NoInstance, <<>>)
    /\ UNCHANGED <<launcher, spc, worker, occupied, h_acq, h_probe>>
    /\ UNCHANGED <<hubVars, tunnelVars, agentVars, procVars>>

\* Manager.SyncWithTmux, called when the Agent has registered with the Hub
\* (again): every instance whose session is listed becomes running.
SyncWithTmux(listOK) ==
    /\ launcher = "tmux"
    /\ ~Locked
    /\ instances' = [path \in DOMAIN instances |->
                        IF listOK /\ worker[path].state # "gone"
                        THEN [instances[path] EXCEPT !.Status = StatusRunning,
                                                     !.StartedAt = "set"]
                        ELSE instances[path]]
    /\ sret' = Return("SyncWithTmux", "", IF listOK THEN "nil" ELSE "list failed",
                      NoInstance, <<>>)
    /\ UNCHANGED <<launcher, portToProject, spc, worker, occupied, h_acq, h_probe>>
    /\ UNCHANGED <<hubVars, tunnelVars, agentVars, procVars>>

\* The machine: a worker that is up starts to answer its health endpoint,
\* and a worker exits.
WorkerReady(name) ==
    /\ worker[name].state = "up"
    /\ worker' = [worker EXCEPT ![name].state = "healthy"]
    /\ UNCHANGED <<launcher, instances, portToProject, spc, occupied,
                   sret, h_acq, h_probe>>
    /\ UNCHANGED <<hubVars, tunnelVars, agentVars, procVars>>

WorkerExit(name) ==
    /\ worker[name].state # "gone"
    /\ worker' = [worker EXCEPT ![name] = [state |-> "gone", port |-> 0]]
    /\ UNCHANGED <<launcher, instances, portToProject, spc, occupied,
                   sret, h_acq, h_probe>>
    /\ UNCHANGED <<hubVars, tunnelVars, agentVars, procVars>>

StopResults == {"stopped", "gone", "failed"}

\* The supervisor under the Agent's handlers (project.start, project.stop,
\* the lookup of a worker's URL), a periodic RefreshStatus and the
\* synchronisation at registration, on a machine where workers come up and go.
NextSupervisor ==
    \/ \E path \in Paths : Start(path)
    \/ \E ok \in BOOLEAN, fresh \in BOOLEAN : StartContainer(ok, fresh)
    \/ WaitForHealthOK
    \/ WaitForHealthPoll
    \/ WaitForHealthTimeout
    \/ WaitForHealthCanceled
    \/ \E path \in Paths, res \in StopResults : Stop(path, res)
    \/ \E path \in Paths : GetOpenCodeURL(path)
    \/ \E cmdOK \in BOOLEAN : RefreshStatus(cmdOK)
    \/ \E listOK \in BOOLEAN : SyncWithTmux(listOK)
    \/ \E name \in AllowedPaths : WorkerReady(name)
    \/ \E name \in AllowedPaths : WorkerExit(name)

SpecSupervisor == InitSupervisor /\ [][NextSupervisor]_vars

\* ------------------------------------------- properties: the replay buffer

\* The messages pushed to s since the last TTL expiry or Trim of s.
Window(s) == SubSeq(h_hist[s], h_win[s] + 1, Len(h_hist[s]))

\* What a pushed message reads back as.
Stored(msg) == UnmarshalMessage(MarshalMessage(msg))

\* C2 (gap-fill completeness): when the pushes to a session since its last
\* expiry or Trim have all returned, GetSince with the id before the first of
\* them, or with the id of the k-th of them, returns exactly the later ones,
\* in increasing id order, each as it was pushed.
C2_GapFillComplete ==
    \A s \in Sessions :
        ~PushInFlight(s) =>
            LET w == Window(s)
            IN \A k \in 0 .. Len(w) :
                   Len(w) > 0 =>
                       LET afterID == IF k = 0 THEN w[1].id - 1 ELSE w[k].id
                       IN GetSince(s, afterID) =
                              [i \in 1 .. Len(w) - k |-> Stored(w[k + i])]

\* C2, its case: three pushes to a session have returned, none expired or
\* trimmed, and GetSince of the first id returns the two later ones.
C2_Witness ==
    \E s \in Sessions :
        /\ ~PushInFlight(s)
        /\ Len(Window(s)) = 3
        /\ Len(GetSince(s, Window(s)[1].id)) = 2

\* C3 (id monotonicity): within a session, every id Push assigns is greater
\* than every id it assigned before, so no id is assigned twice.
C3_IdsIncrease ==
    \A s \in Sessions :
        \A i, j \in 1 .. Len(h_hist[s]) :
            i < j => h_hist[s][i].id < h_hist[s][j].id

\* C4 (latest id): GetLatestID of a session is 0 before its first push and
\* the highest id ever assigned in it afterwards.
C4_LatestIsHighest ==
    \A s \in Sessions :
        GetLatestID(s) = SetMax({h_hist[s][i].id : i \in 1 .. Len(h_hist[s])})

\* ------------------------------------------- properties: the client server

\* The sendMessage calls of connection c for session s that carry a frame of
\* one of the given types, in order.
FramesOf(c, s, types) ==
    SelectSeq(h_out[c], LAMBDA r : r.session = s /\ r.frame.type \in types)

\* What a client sees of a frame apart from the msgId.
Visible(f) == [type |-> f.type, id |-> f.id, payload |-> f.payload]

\* No handler is between giving a message of s its id and emitting it.
Quiet(s) == \A c \in Clients : req[c].sid = s => pc[c] \notin {"push", "emit"}

\* The last id assigned in s since its keys were last removed, 0 if none.
LatestAssigned(s) ==
    IF Window(s) = <<>> THEN 0 ELSE Window(s)[Len(Window(s))].id

\* C1 (resume round-trip): connection d has carried all frames of session s;
\* a client that saw them up to the frame with msgId L reconnects as c and
\* sends sync{s, L} while no frame of s is in the making and the buffer holds
\* every entry of s with id > L. Then the frames the client builds from the
\* messages of the batch are, in type, request id and payload, the frames
\* the Hub emitted for s after that frame.
C1_ResumeRoundTrip ==
    [][\A c, d \in Clients :
          (c # d /\ pc[c] = "idle" /\ pc'[c] = "sync") =>
              LET s == req'[c].sid
                  L == req'[c].after
                  batch == req'[c].msgs
                  log == FramesOf(d, s, {"stream", "stream.end", "error"})
              IN \A p \in 1 .. Len(log) :
                     ( /\ L > 0
                       /\ log[p].frame.msgId = L
                       /\ \A i \in 1 .. p : log[i].frame.msgId <= L
                       /\ Quiet(s)
                       /\ \A j \in 1 .. Len(h_hist[s]) :
                              /\ h_hist[s][j].requestId = RequestIdOf(d)
                              /\ h_hist[s][j].id > L =>
                                     MarshalMessage(h_hist[s][j]) \in zset[s] )
                     => [i \in 1 .. Len(batch) |-> Visible(SyntheticMsg(batch[i]))]
                            = [i \in 1 .. Len(log) - p |-> Visible(log[p + i].frame)]
      ]_vars

C6_BufferedThenEmitted ==
    \A c \in Clients : \A s \in HubSessions :
        LET log == FramesOf(c, s, {"stream", "stream.end"})
        IN /\ \A i \in 1 .. Len(log) :
                  \E j \in 1 .. Len(h_hist[s]) :
                      /\ Visible(log[i].frame) = Visible(SyntheticMsg(Stored(h_hist[s][j])))
                      /\ log[i].frame.msgId = h_hist[s][j].id
                      /\ ~(\E d \in Clients : pc[d] = "push" /\ req[d].ent = h_hist[s][j])
           /\ (\A j \in 1 .. Len(h_hist[s]) : h_hist[s][j].requestId = RequestIdOf(c))
                  => \A i \in 1 .. Len(log) : log[i].frame.msgId = i

\* C7 (lastAckId non-decreasing): no step lowers a connection's lastAckId.
C7_AckNonDecreasing ==
    [][\A c \in Clients : lastAckID'[c] >= lastAckID[c]]_vars

\* ------------------------------------------ properties: the tunnel manager

\* The connection is registered and its reader is in its loop.
Serving(k) == apc[k] \in {"serving", "dispatch"}

\* C8 (displacement uniqueness): the registry holds at most one connection per
\* agentId, and once a later registration with an agentId has succeeded, the
\* transport of every earlier registration with that agentId is no longer
\* open, so that no Forward resolves to the later one while an earlier one is
\* still open.
C8_DisplacementUnique ==
    \A a \in AgentIds :
        /\ Cardinality({k \in Conns : Serving(k) /\ agents[a] = k}) <= 1
        /\ \A i, j \in 1 .. Len(h_regs[a]) :
               i < j => tr[h_regs[a][i]] # "open"

\* C9 (forward after displacement): when an agentId has been registered a
\* second time and the transport of its latest registration is open and
\* served, a Forward to that agentId resolves to that registration, also after
\* the displaced connection's reader has run its cleanup.
C9_ForwardFindsSecond ==
    [][\A f \in Calls :
          (fpc[f] = "idle" /\ fpc'[f] # "idle") =>
              LET a == fcall'[f].agentID
                  regs == h_regs[a]
              IN (Len(regs) >= 2 /\ Serving(regs[Len(regs)])
                                 /\ tr[regs[Len(regs)]] = "open")
                     => /\ fcall'[f].err = ""
                        /\ fcall'[f].conn = regs[Len(regs)]
      ]_vars

\* C10 (pending requests of a lost registration): once the reader of a
\* registered connection has exited and run its cleanup, after displacement
\* or transport failure, every request that Forward had handed out on that
\* connection and that is still pending has its response channel closed, and
\* no reply is being dispatched to it.
C10_PendingClosed ==
    \A k \in Conns :
        (apc[k] = "done" /\ agentID[k] # "") =>
            /\ dch[k] = NoDispatch
            /\ \A r \in RequestIds :
                   (requests[k][r] # None /\ fpc[requests[k][r]] = "waiting")
                       => ch[requests[k][r]].closed

\* ------------------------------------------ properties: the client's queue

\* The frames of a sequence of sendMessage records that were enqueued.
RECURSIVE Accepted(_)
Accepted(out) ==
    IF out = <<>> THEN <<>>
    ELSE IF Head(out).dropped THEN Accepted(Tail(out))
    ELSE <<Head(out).frame>> \o Accepted(Tail(out))

\* The last n elements of a sequence.
LastN(q, n) == SubSeq(q, Len(q) - n + 1, Len(q))

RECURSIVE IsSubseq(_, _)
IsSubseq(a, b) ==
    IF a = <<>> THEN TRUE
    ELSE IF b = <<>> THEN FALSE
    ELSE IF Head(a) = Head(b) THEN IsSubseq(Tail(a), Tail(b))
    ELSE IsSubseq(a, Tail(b))

\* The stream and stream.end frames of a sequence of agent frames, as type and
\* payload of the frame the client is sent for each.
RECURSIVE StreamOfAgent(_)
StreamOfAgent(q) ==
    IF q = <<>> THEN <<>>
    ELSE IF Head(q).type = MsgTypeStream
    THEN <<[type |-> "stream", payload |-> RawJSON(Head(q).payload)]>>
             \o StreamOfAgent(Tail(q))
    ELSE IF Head(q).type = MsgTypeStreamEnd
    THEN <<[type |-> "stream.end", payload |-> Null]>> \o StreamOfAgent(Tail(q))
    ELSE StreamOfAgent(Tail(q))

\* The stream and stream.end frames client c was sent, in sendMessage order,
\* as type and payload.
RECURSIVE StreamOfOut(_)
StreamOfOut(out) ==
    IF out = <<>> THEN <<>>
    ELSE IF Head(out).frame.type \in {"stream", "stream.end"}
    THEN <<[type |-> Head(out).frame.type, payload |-> Head(out).frame.payload]>>
             \o StreamOfOut(Tail(out))
    ELSE StreamOfOut(Tail(out))

\* The frame the stream handler of c has taken from its channel and not yet
\* sent.
InHand(c) ==
    IF pc[c] \in {"push", "emit"}
    THEN <<[type |-> req[c].ent.type, payload |-> RawJSON(req[c].ent.payload)]>>
    ELSE <<>>

\* stream.end comes after every stream frame.
EndLast(q) ==
    \A i, j \in 1 .. Len(q) :
        (q[i].type = "stream.end" /\ q[j].type = "stream") => j < i

\* C14 (per-request ordering): the stream and stream.end frames handed to
\* sendMessage for a client's request (those its queue took are some of them,
\* in that order), followed by the one its handler holds and those
\* waiting on the response channel, are the frames the Hub read from the Agent
\* for the request with some left out, in the order read; so when the Agent's
\* stream.end came after its stream frames, the client's does too.
C14_StreamOrder ==
    \A c \in Clients :
        /\ IsSubseq(StreamOfOut(h_out[c]) \o InHand(c) \o StreamOfAgent(respCh[c]),
                    StreamOfAgent(h_recv[c]))
        /\ (EndLast(StreamOfAgent(h_recv[c])) => EndLast(StreamOfOut(h_out[c])))

\* C14, its case: the Agent sent two different stream frames and a stream.end
\* for a request, and the client's queue took all three, in that order.
C14_Witness ==
    \E c \in Clients :
        /\ Len(h_recv[c]) = 3
        /\ h_recv[c][1].type = MsgTypeStream /\ h_recv[c][2].type = MsgTypeStream
        /\ h_recv[c][1].payload # h_recv[c][2].payload
        /\ h_recv[c][3].type = MsgTypeStreamEnd
        /\ StreamOfOut(SelectSeq(h_out[c], LAMBDA r : ~r.dropped))
               = StreamOfAgent(h_recv[c])

\* ------------------------------------------- properties: pending requests

\* C11 (cancellation closes the response channel): the watcher's step
\* deregisters the request and closes its channel, which was open; from then
\* on the request id does not lead to that channel; and a reply the reader has
\* looked up is delivered only to a channel that is still open, never sent on
\* a closed one.
C11_CancelDropsReplies ==
    [][/\ \A f \in Calls :
             (fpc[f] = "waiting" /\ fpc'[f] = "done") =>
                 /\ ~ch[f].closed /\ ch'[f].closed
                 /\ requests'[fcall[f].conn][fcall[f].rid] = None
       /\ \A f \in Calls :
             fpc'[f] = "done" => requests'[fcall[f].conn][fcall[f].rid] # f
       /\ \A k \in Conns :
             (apc[k] = "dispatch" /\ apc'[k] = "serving") =>
                 ~ch[dch[k].call].closed]_vars

\* C12 (Forward failures leave no trace): a Forward that fails at the lookup
\* changes neither a pending-request map nor a queue; a Forward that fails at
\* a full queue enqueues nothing, and the request id it registered leads again
\* to what it led to before the call.
C12_FailureLeavesNoTrace ==
    [][\A f \in Calls :
          /\ (fpc[f] = "idle" /\ fpc'[f] = "failed") =>
                 /\ fcall'[f].err = "ErrAgentNotFound"
                 /\ requests' = requests /\ asend' = asend
          /\ (fpc[f] = "registered" /\ fpc'[f] = "failed") =>
                 /\ asend' = asend
                 /\ requests'[fcall[f].conn][fcall[f].rid] = h_prev[f]
                 /\ \A k \in Conns, r \in RequestIds :
                        <<k, r>> # <<fcall[f].conn, fcall[f].rid>> =>
                            requests'[k][r] = requests[k][r]]_vars

\* ------------------------------------- properties: the forwarded request

\* C15 (timeout): when the deadline of a forwarded non-streaming request has
\* passed with no reply read for it, the handler's return is with an "error"
\* frame carrying the request id handed to the client's queue; and the
\* watcher's step leaves the request id deregistered and the response channel
\* closed, and can be taken as soon as the deadline has passed.
C15_TimeoutErrorFrame ==
    [][\A f \in Calls :
          /\ (hpc[f] # "done" /\ hpc'[f] = "done" /\ h_exp[f]) =>
                 LET out == h_out'[ClientOf(f)]
                 IN /\ Len(out) = Len(h_out[ClientOf(f)]) + 1
                    /\ out[Len(out)].frame.type = "error"
                    /\ out[Len(out)].frame.id = hreq[f].rid
          /\ (fpc[f] = "waiting" /\ fpc'[f] = "done") =>
                 /\ ch'[f].closed
                 /\ requests'[fcall[f].conn][fcall[f].rid] = None
          /\ (fpc[f] = "waiting" /\ ctxDone[f] /\ ~panicked) =>
                 ENABLED ForwardWatcher(f)]_vars

\* ------------------------------------------ properties: the Agent's client

\* The ways an attempt fails: the dial or the register write fails, the reply
\* cannot be read, the reply is not agent.registered, the registration is
\* refused, the connection is lost after ready.
FailedEnds == {"dial", "read", "other", "refused", "lost"}

\* C17 (registration): the client becomes ready only on an agent.registered
\* reply with success=true; on every other reply, and on success=false, the
\* transport is closed, connectAndRun has returned, and what it returned is
\* an error, so that Run treats the attempt as failed.
C17_ReadyOnlyOnSuccess ==
    [][cstate = "registering" /\ cstate' # "registering" =>
          IF cstate' = "ready"
          THEN h_end' = "ready" /\ aconn' = "open"
          ELSE /\ h_end' \in FailedEnds
               /\ aconn' = "closed"
               /\ cstate' = "returned"
               /\ err' # "nil"]_vars

\* C18 (reconnect backoff): the delay starts at one second and is always
\* between one second and maxReconnect; it is reset to one second when the
\* client becomes ready; after an attempt that failed Run waits, and when the
\* wait is over the delay is doubled, up to maxReconnect.
C18_Backoff ==
    [][/\ (h_att = 0 => reconnectDelay = Second)
       /\ reconnectDelay \in Second .. maxReconnect
       /\ reconnectDelay' \in Second .. maxReconnect
       /\ (cstate # "ready" /\ cstate' = "ready" => reconnectDelay' = Second)
       /\ (cstate = "returned" /\ h_end \in FailedEnds /\ cstate' # "returned" =>
              cstate' = "backoff" /\ reconnectDelay' = reconnectDelay)
       /\ (cstate = "backoff" /\ cstate' = "idle" =>
              reconnectDelay' = min(2 * reconnectDelay, maxReconnect))]_vars

\* The stream frames for a sequence of chunks, with the request id.
StreamFrames(id, chunks) ==
    [i \in 1 .. Len(chunks) |-> [type |-> MsgTypeStream, id |-> id, payload |-> chunks[i]]]

\* The request failed: its payload does not parse, or what its handler
\* called did not succeed.
Failed(r) == ~r.valid \/ r.outcome # "ok"

\* C19 (frames of a request): a handler that has returned has written, with
\* the request id on every frame: for a failed request one error frame; else
\* for "prompt" one stream frame for each chunk, in order, and then one
\* stream.end; else one response frame carrying the last chunk. (A handler
\* that has returned writes nothing more.)
C19_FramesOfRequest ==
    \A t \in Tasks :
        tpc[t] = "done" =>
            LET r == treq[t]
                e == h_emit[t]
            IN IF Failed(r)
               THEN Len(e) = 1 /\ e[1].type = MsgTypeError /\ e[1].id = r.id
               ELSE IF r.action = "prompt"
               THEN e = StreamFrames(r.id, r.parts)
                          \o <<[type |-> MsgTypeStreamEnd, id |-> r.id, payload |-> Nil]>>
               ELSE /\ Len(e) = 1 /\ e[1].type = MsgTypeResponse /\ e[1].id = r.id
                    /\ (r.action # "project.start" =>
                           e[1].payload =
                             LastChunk(HandleRequestWithURL(r.action, r.outcome, r.parts)))

\* C20 (single writer): at no time is more than one task, the reader
\* included, inside a write to the transport.
C20_SingleWriter == Cardinality(Writers) <= 1

\* ------------------------------------------------- properties: admission

\* The connection k was admitted: it is served and is the one installed
\* under the id it registered.
Installed(k) == apc[k] = "serving" /\ agents[agentID[k]] = k

\* C16 (agent admission): the connection whose first frame has just been
\* handled is installed in the registry exactly when that frame is
\* agent.register and either its token equals the configured agent token or no
\* agent token is configured; otherwise its transport is closed and the
\* registry, an existing registration under the same id included, is as it was.
C16_Admission ==
    [][\A k \in Conns :
          (apc[k] = "none" /\ apc'[k] # "none") =>
              IF /\ h_first'[k].type = MsgTypeRegister
                 /\ (config = "" \/ h_first'[k].token = config)
              THEN Installed(k)' /\ tr'[k] = "open"
              ELSE /\ tr'[k] = "closed"
                   /\ apc'[k] = "done"
                   /\ agents' = agents
                   /\ \A j \in Conns \ {k} : tr'[j] = tr[j]]_vars

\* C16 as stated: installed only with agent.register and a token equal to the
\* configured one, whatever is configured.
C16_AdmissionAsStated ==
    [][\A k \in Conns :
          (apc[k] = "none" /\ apc'[k] # "none" /\ Installed(k)') =>
              /\ h_first'[k].type = MsgTypeRegister
              /\ h_first'[k].token = config]_vars

\* C16, its case: with a token configured, one connection registered with it
\* and is installed, and a later one that sent agent.register with another
\* token for the same id was closed.
C16_Witness ==
    \E k \in Conns : \E j \in EarlierConns(k) :
        /\ config = AgentToken
        /\ Installed(j) /\ h_first[j] = [type |-> MsgTypeRegister, token |-> AgentToken]
        /\ h_first[k] = [type |-> MsgTypeRegister, token |-> "wrong"]
        /\ apc[k] = "done" /\ tr[k] = "closed" /\ tr[j] = "open"

\* -------------------------------------------------- properties: the port pool

\* The unreserved ports of the range, in the map m.
Unreserved(m) == {port \in Ports : port \notin DOMAIN m}

\* What holds of the used-map after every call: its ports are in the range,
\* no path holds two of them, and after a successful Release the port is
\* unreserved and an Acquire for a path that holds nothing succeeds with that
\* port or a lower one.
PoolShape ==
    /\ \A port \in DOMAIN portToProject :
          port \in Ports /\ portToProject[port] \in Paths
    /\ \A projectPath \in Paths :
          Cardinality(Holders(portToProject, projectPath)) <= 1
    /\ h_acq.op = "Release" /\ h_acq.err = "nil" =>
          /\ h_acq.port \in Unreserved(portToProject)
          /\ \A projectPath \in Paths :
                Holders(portToProject, projectPath) = {} =>
                    \A r \in Acquire(portToProject, projectPath) :
                        r.err = "nil" /\ r.port <= h_acq.port

\* C21 (amended): after any interleaving of Acquire, AcquireAvailable and
\* Release, every port of the used-map is in [PortMin, PortMax] and belongs to
\* one path, no path holds two ports, a released port can be acquired again,
\* and Acquire fails with ErrNoAvailablePort iff every port of the range is
\* reserved and the path holds none of them.
C21_PortPool ==
    [][/\ PoolShape'
       /\ h_acq'.op = "Acquire" /\ h_acq' # h_acq =>
             (h_acq'.err = ErrNoAvailablePort
                <=> /\ Unreserved(portToProject) = {}
                    /\ Holders(portToProject, h_acq'.path) = {})]_vars

\* C21 as stated: Acquire fails iff every port of the range is reserved.
C21_PortPoolAsStated ==
    [][/\ PoolShape'
       /\ h_acq'.op = "Acquire" /\ h_acq' # h_acq =>
             (h_acq'.err = ErrNoAvailablePort
                <=> Unreserved(portToProject) = {})]_vars

\* C21, its case: every port of the range is reserved, each by another path,
\* and an Acquire for a path that holds none has failed.
C21_Witness ==
    /\ Unreserved(portToProject) = {}
    /\ Cardinality({portToProject[port] : port \in DOMAIN portToProject})
          = Cardinality(Ports)
    /\ h_acq.op = "Acquire" /\ h_acq.err = ErrNoAvailablePort
    /\ Holders(portToProject, h_acq.path) = {}

\* What a call for projectPath that returned r in the pool m was to do, the
\* probe reporting the ports inUse as occupied.
AcquireContract(m, projectPath, inUse, r) ==
    LET held == Holders(m, projectPath)
        free == Unreserved(m) \ inUse
    IN  IF held # {}
        THEN r.err = "nil" /\ r.port \in held /\ r.m = m
        ELSE IF free = {}
        THEN r.err # "nil" /\ r.m = m
        ELSE /\ r.err = "nil"
             /\ r.port \in free
             /\ \A x \in free : r.port <= x
             /\ r.m = Put(m, r.port, projectPath)

\* C22: Acquire and AcquireAvailable return the path's port and leave the pool
\* as it is when the path holds one; otherwise Acquire reserves the lowest
\* unreserved port and AcquireAvailable the lowest unreserved port that the
\* probe does not report as occupied (so a port released by Stop, being the
\* lowest free one, is the one the next Start gets). It is stated of the calls
\* made and of every call that could be made in the state.
C22_LowestFree ==
    [][/\ h_acq' # h_acq /\ h_acq'.op \in {"Acquire", "AcquireAvailable"} =>
             AcquireContract(portToProject, h_acq'.path, h_acq'.inUse,
                             [port |-> h_acq'.port, err |-> h_acq'.err,
                              m |-> portToProject'])
       /\ \A projectPath \in Paths :
            /\ \A r \in Acquire(portToProject, projectPath) :
                  AcquireContract(portToProject, projectPath, {}, r)
            /\ \A inUse \in SUBSET Ports :
               \A r \in AcquireAvailable(portToProject, projectPath, inUse) :
                  AcquireContract(portToProject, projectPath, inUse, r)]_vars

\* C22, its case: with the first port of the range unreserved, an
\* AcquireAvailable whose probe reported that port as occupied has reserved
\* the second port for a path that held none.
C22_Witness ==
    /\ h_acq.op = "AcquireAvailable" /\ h_acq.err = "nil" /\ h_acq.port = PortMax
    /\ PortMin \in h_acq.inUse /\ PortMin \in Unreserved(portToProject)
    /\ portToProject = Put(<<>>, PortMax, h_acq.path)

\* --------------------------------------- properties: the worker supervisor

\* C23: a Start that returns success for a path that was not running has had
\* a health probe on the instance's port answered after the launch and before
\* it returned, and Start makes no instance running without such a probe.
C23_HealthGate ==
    [][Locked =>
        /\ \A path \in DOMAIN instances :
              instances'[path].Status = StatusRunning
                /\ instances[path].Status # StatusRunning =>
                    /\ path = spc.path /\ spc.pc = "waiting"
                    /\ instances'[path].Port = spc.port
                    /\ Listening(spc.port)
                    /\ h_probe' = h_probe + 1
        /\ sret' # sret /\ sret'.op = "Start" /\ sret'.err = "nil" =>
              /\ spc.pc = "waiting" /\ sret'.path = spc.path
              /\ h_probe' >= 1
              /\ instances'[spc.path].Status = StatusRunning]_vars

\* C23, its case: a Start has returned success for an instance it made
\* running, after one answered probe on the port its worker serves.
C23_Witness ==
    /\ sret.op = "Start" /\ sret.err = "nil" /\ sret.path \in AllowedPaths
    /\ h_probe = 1 /\ ~Locked
    /\ instances[sret.path].Status = StatusRunning
    /\ worker[sret.path] = [state |-> "healthy", port |-> instances[sret.path].Port]

\* C24: Start, Stop and GetOpenCodeURL called with a path that is not on the
\* allow-list return an error, leave the instance map, every instance's
\* status and port and the port pool as they are, and launch and stop no
\* worker.
C24_Whitelist ==
    [][sret' # sret /\ sret'.op \in {"Start", "Stop", "GetOpenCodeURL"}
         /\ sret'.path \notin AllowedPaths =>
            /\ sret'.err # "nil" /\ sret'.url = <<>>
            /\ UNCHANGED <<instances, portToProject, worker, spc>>]_vars

\* C24, its case: with an instance running on a reserved port, a call of
\* Stop with a path that is not allowed has returned an error.
C24_Witness ==
    /\ sret.op = "Stop" /\ sret.path \notin AllowedPaths /\ sret.err # "nil"
    /\ \E path \in AllowedPaths :
          /\ instances[path].Status = StatusRunning
          /\ Holders(portToProject, path) = {instances[path].Port}

\* C25: in every reachable state at most MaxInstances instances are running,
\* and a Start of a path that is not running while MaxInstances instances are
\* running fails with "max instances reached", reserving no port and
\* launching no worker.
C25_MaxInstances ==
    [][/\ Cardinality({path \in DOMAIN instances :
                          instances'[path].Status = StatusRunning}) <= MaxInstances
       /\ sret' # sret /\ sret'.op = "Start" /\ ~Locked
            /\ sret'.path \in AllowedPaths
            /\ instances[sret'.path].Status # StatusRunning
            /\ runningCount >= MaxInstances =>
               /\ sret'.err = "max instances reached"
               /\ UNCHANGED <<instances, portToProject, worker, spc>>]_vars

\* C26: when a Start fails after it reserved a port (launch error, probe
\* timeout or cancellation), at its return the worker is torn down, the port
\* is no longer reserved, the instance has status error with the failure's
\* message, and the caller gets the failure.
C26_FailedStartCleansUp ==
    [][Locked /\ ~Locked' /\ instances'[spc.path].Status # StatusRunning =>
            /\ sret'.op = "Start" /\ sret'.path = spc.path /\ sret'.err # "nil"
            /\ instances'[spc.path].Status = StatusError
            /\ instances'[spc.path].Error = sret'.err
            /\ worker'[spc.path].state = "gone"
            /\ spc.port \notin DOMAIN portToProject']_vars

\* C27: Stop on a stopped instance changes nothing; Stop on an instance in any
\* other status stops the worker, releases the instance's port and no other,
\* and leaves the instance stopped with port, error and start time cleared
\* (so that a second Stop finds it stopped and changes nothing); it succeeds
\* when the launcher reports the worker already gone.
C27_StopIdempotent ==
    [][sret' # sret /\ sret'.op = "Stop" /\ sret'.path \in AllowedPaths =>
        LET path == sret'.path
        IN  IF instances[path].Status = StatusStopped
            THEN /\ sret'.err = "nil"
                 /\ UNCHANGED <<instances, portToProject, worker>>
            ELSE /\ sret'.err = "nil"
                 /\ worker'[path].state = "gone"
                 /\ instances' = [instances EXCEPT ![path] =
                       [Status |-> StatusStopped, Port |-> 0, Error |-> "",
                        StartedAt |-> "zero"]]
                 /\ Holders(portToProject', path) = {}
                 /\ \A port \in DOMAIN portToProject :
                       portToProject[port] # path =>
                          /\ port \in DOMAIN portToProject'
                          /\ portToProject'[port] = portToProject[port]]_vars

\* C28: RefreshStatus moves every instance recorded as running whose worker is
\* gone to stopped, releasing and clearing its port, and leaves every
\* instance whose worker is alive, and every stopped or error instance, as
\* it is.
C28_RefreshStatus ==
    [][sret' # sret /\ sret'.op = "RefreshStatus" =>
        \A path \in DOMAIN instances :
            IF instances[path].Status = StatusRunning /\ worker[path].state = "gone"
            THEN /\ instances'[path] = [Status |-> StatusStopped, Port |-> 0,
                                        Error |-> "", StartedAt |-> "zero"]
                 /\ instances[path].Port \notin DOMAIN portToProject'
            ELSE instances'[path] = instances[path]]_vars

\* The number a sequence of decimal digits writes.
RECURSIVE Value(_)
Value(ds) == IF ds = <<>> THEN 0 ELSE 10 * Value(SubSeq(ds, 1, Len(ds) - 1)) + ds[Len(ds)]

\* C29: GetOpenCodeURL(path) returns http://localhost:{port}, {port} being the
\* instance's reserved non-zero port, exactly when the instance is running,
\* and for every other status an error naming the status and no URL, in every
\* state reached through Start, Stop, RefreshStatus and the synchronisation
\* with the existing worker sessions.
C29_RunningIffURL ==
    [][sret' # sret /\ sret'.op = "GetOpenCodeURL" /\ sret'.path \in AllowedPaths =>
        LET inst == instances[sret'.path]
        IN  IF inst.Status = StatusRunning
            THEN /\ sret'.err = "nil"
                 /\ inst.Port # 0
                 /\ Holders(portToProject, sret'.path) = {inst.Port}
                 /\ Len(sret'.url) > 1
                 /\ Head(sret'.url) = "http://localhost:"
                 /\ Value(Tail(sret'.url)) = inst.Port
            ELSE /\ sret'.err = "project not running"
                 /\ sret'.status = inst.Status
                 /\ sret'.url = <<>>]_vars
\* ------------------------------------------------ properties: degradation

\* The stream and stream.end frames of a sequence of agent frames, as type,
\* request id and payload of the frame the client is sent for each.
RECURSIVE FramesOfAgent(_, _)
FramesOfAgent(q, requestID) ==
    IF q = <<>> THEN <<>>
    ELSE IF Head(q).type = MsgTypeStream
    THEN <<[type |-> "stream", id |-> requestID,
            payload |-> RawJSON(Head(q).payload)]>>
             \o FramesOfAgent(Tail(q), requestID)
    ELSE IF Head(q).type = MsgTypeStreamEnd
    THEN <<[type |-> "stream.end", id |-> requestID, payload |-> Null]>>
             \o FramesOfAgent(Tail(q), requestID)
    ELSE FramesOfAgent(Tail(q), requestID)

\* The stream and stream.end frames handed to sendMessage, in order, without
\* their msgId.
RECURSIVE FramesOfOut(_)
FramesOfOut(out) ==
    IF out = <<>> THEN <<>>
    ELSE IF Head(out).frame.type \in {"stream", "stream.end"}
    THEN <<[type |-> Head(out).frame.type, id |-> Head(out).frame.id,
            payload |-> Head(out).frame.payload]>> \o FramesOfOut(Tail(out))
    ELSE FramesOfOut(Tail(out))

\* What the prompt of client c has delivered and has yet to deliver: the
\* frames sent, the one its handler holds, those waiting on its channel.
Pipeline(c) ==
    FramesOfOut(h_out[c])
        \o (IF pc[c] \in {"push", "emit"}
            THEN <<[type |-> req[c].ent.type, id |-> req[c].rid,
                    payload |-> RawJSON(req[c].ent.payload)]>>
            ELSE <<>>)
        \o FramesOfAgent(respCh[c], req[c].rid)

\* A sync.batch with no messages: an empty array, or the null a nil slice is
\* marshalled as.
EmptyBatch(f) ==
    /\ f.type = "sync.batch"
    /\ IF f.messages \in STRING THEN f.messages = Null ELSE f.messages = <<>>

\* C30 (degradation): whichever buffer the Hub runs with and whether or not
\* its calls succeed, a step of a prompt's handler other than the arrival of
\* an agent frame leaves unchanged the sequence of stream and stream.end
\* frames (type, request id, payload) sent followed by those still to send, so
\* that what the client is sent does not depend on the buffer; and every frame
\* sent outside a prompt answers a sync with a sync.batch carrying the request
\* id, never an error frame, the batch being empty with latestId 0 under the
\* no-op buffer.
C30_Degradation ==
    [][\A c \in Clients :
          /\ (pc[c] \in {"stream", "push", "emit"} /\ h_recv'[c] = h_recv[c])
                 => Pipeline(c)' = Pipeline(c)
          /\ (pc[c] \in {"idle", "sync"} /\ h_out'[c] # h_out[c])
                 => LET f == h_out'[c][Len(h_out'[c])].frame
                    IN /\ f.type = "sync.batch"
                       /\ f.id = RequestIdOf(c)
                       /\ buffer = "noop" => (EmptyBatch(f) /\ f.latestId = 0)]_vars

\* ------------------------------------------------------ properties: Trim

\* The step is a call of Trim: no Push starts or returns and no TTL elapses.
TrimStep == pc' = pc /\ h_in' = h_in /\ now' = now

\* The session the step trimmed: its sorted set, or the mark of its last
\* trim, changed.
Trimmed(s) == zset'[s] # zset[s] \/ h_win'[s] # h_win[s]

\* C38 (Trim): a Trim of a session whose sorted set holds n entries leaves
\* exactly min(n, maxCount) of them, every entry kept having a higher id than
\* every entry removed (so none of the maxCount newest is removed); it leaves
\* the id counter, and the other sessions, as they were.
C38_TrimKeepsNewest ==
    [][TrimStep =>
          /\ ctr' = ctr
          /\ Cardinality({s \in Sessions : Trimmed(s)}) <= 1
          /\ \A s \in Sessions :
                Trimmed(s) =>
                    LET n == Cardinality(zset[s])
                    IN /\ zset'[s] \subseteq zset[s]
                       /\ Cardinality(zset'[s])
                              = (IF n < MaxCount THEN n ELSE MaxCount)
                       /\ \A k \in zset'[s], r \in zset[s] \ zset'[s] :
                              k.id > r.id]_vars

\* C38, its case: a session took more than maxCount entries since its keys
\* were last created, a Trim removed the oldest, and the sorted set holds the
\* maxCount newest with the counter at the highest id.
C38_Witness ==
    \E s \in Sessions :
        /\ ctr[s] = MaxCount + 1
        /\ {m.id : m \in zset[s]} = 2 .. (MaxCount + 1)
        /\ h_win[s] = Len(h_hist[s])

\* ------------------------------------------- properties: the sync snapshot

\* C32 (consistent snapshot): when a sync handler hands its sync.batch to the
\* connection, every entry the session's sorted set holds with
\* lastAckId < id <= latestId is among the batch's messages, whatever other
\* handlers pushed to the session meanwhile.
C32_BatchSnapshot ==
    [][\A c \in Clients :
          (pc[c] = "sync" /\ pc'[c] = "idle") =>
              LET f == h_out'[c][Len(h_out'[c])].frame
                  s == req[c].sid
              IN /\ f.type = "sync.batch"
                 /\ \A m \in zset[s] :
                        (req[c].after < m.id /\ m.id <= f.latestId)
                            => \E i \in 1 .. Len(f.messages) : f.messages[i].id = m.id
      ]_vars

\* --------------------------------- properties: the pool and the instances

\* The pool and the instance table say the same: a port is reserved for a
\* path exactly when the path's instance has it and is starting or running,
\* and an instance that is stopped or in error has port 0 and no reservation.
PoolAgrees ==
    /\ \A port \in Ports, path \in AllowedPaths :
          (port \in DOMAIN portToProject /\ portToProject[port] = path)
              <=> /\ instances[path].Port = port
                  /\ instances[path].Status \in {StatusStarting, StatusRunning}
    /\ \A path \in AllowedPaths :
          instances[path].Status \in {StatusStopped, StatusError} =>
              /\ instances[path].Port = 0
              /\ Holders(portToProject, path) = {}

\* C34 (pool and instance table agree): PoolAgrees holds after every step, and
\* a Stop of one path removes from the pool no port reserved for another
\* path, nor does a RefreshStatus remove a port whose path's instance it did
\* not find starting or running.
C34_PoolAgreesWithInstances ==
    [][/\ PoolAgrees'
       /\ \A port \in DOMAIN portToProject \ DOMAIN portToProject' :
             /\ sret'.op = "Stop" => portToProject[port] = sret'.path
             /\ sret'.op = "RefreshStatus" =>
                   instances[portToProject[port]].Status
                       \in {StatusStarting, StatusRunning}]_vars

\* C35 (no port shared): no two instances that are starting or running have
\* the same port, and every running instance has a port of the range.
C35_NoSharedPort ==
    /\ \A a, b \in AllowedPaths :
          ( /\ a # b
            /\ instances[a].Status \in {StatusStarting, StatusRunning}
            /\ instances[b].Status \in {StatusStarting, StatusRunning} )
              => instances[a].Port # instances[b].Port
    /\ \A a \in AllowedPaths :
          instances[a].Status = StatusRunning => instances[a].Port \in Ports

\* ----------------------------- properties: Forward and a disconnecting agent

\* C33 (Forward and a closed queue): a Forward that reaches its send when the
\* reader of the agent has closed the outbound queue returns an error, the
\* process does not panic and the queue is left as it was; and every pending
\* request is registered on an agent that is in the registry.
C33_ForwardAfterClose ==
    [][/\ \A f \in Calls :
             (fpc[f] = "registered" /\ asendClosed[fcall[f].conn]
                 /\ (fpc'[f] # fpc[f] \/ (panicked' /\ apc' = apc))) =>
                 /\ ~panicked'
                 /\ fpc'[f] = "failed"
                 /\ asend' = asend
       /\ \A k \in Conns, r \in RequestIds :
             requests'[k][r] # None =>
                 (agentID'[k] # "" /\ agents'[agentID'[k]] = k)]_vars

\* ------------------------------------------ properties: request isolation

\* C39 (request isolation): a Forward whose request is in flight (queued for
\* the agent, its context not done) is the one its request id leads to in the
\* agent's pending-request map, whatever other Forwards register, fail or are
\* cancelled meanwhile; and the reply a reader has looked up goes to a call
\* made on that reader's agent with the id of the reply.
C39_RequestIsolation ==
    /\ \A f \in Calls :
          fpc[f] = "waiting" => requests[fcall[f].conn][fcall[f].rid] = f
    /\ \A k \in Conns :
          apc[k] = "dispatch" => fcall[dch[k].call].conn = k

\* --------------------------------------------- the client and its sync

\* The frames connection c's writer has written to the transport, which the
\* client has received: the enqueued ones that are no longer in the queue.
Received(c) ==
    SubSeq(Accepted(h_out[c]), 1, Len(Accepted(h_out[c])) - Len(send[c]))

\* useWebSocket.ts, lastAckIDRef after the frames of connection c: the
\* highest msgId the client has seen, 0 when it has seen none.
lastAckIDRef(c) ==
    SetMax({0} \cup {Received(c)[i].msgId : i \in 1 .. Len(Received(c))})

\* The client, whose frames so far came on connection d, has connected again
\* as c: ws.onopen calls requestSync once, which sends sync with lastAckIDRef
\* unless that is 0, and the Hub's handleSync reads the buffer with GetSince.
requestSync(c, d, sessionID) ==
    /\ pc[c] = "idle"
    /\ buffer = "redis"
    /\ lastAckIDRef(d) # 0
    /\ \A i \in 1 .. Len(h_out[c]) : h_out[c][i].frame.type # "sync.batch"
    /\ req' = [req EXCEPT ![c] =
                  [NoReq EXCEPT !.sid = sessionID, !.rid = RequestIdOf(c),
                                !.after = lastAckIDRef(d),
                                !.msgs = GetSince(sessionID, lastAckIDRef(d))]]
    /\ pc' = [pc EXCEPT ![c] = "sync"]
    /\ UNCHANGED <<ctr, zset, now, send, lastAckID, respCh, h_hist, h_win, h_out, h_in>>
    /\ UNCHANGED h_recv
    /\ UNCHANGED tunnelVars
    /\ UNCHANGED <<agentVars, supVars, buffer>>

\* A client that runs a prompt on its first connection and, connected again,
\* syncs on its second.
FirstConn == "c1"
SecondConn == "c2"

NextReconcile ==
    \/ \E c \in {FirstConn, SecondConn} : HandleWebSocket(c)
    \/ \E c \in {FirstConn, SecondConn} : writePump(c)
    \/ \E s \in HubSessions : handlePrompt(FirstConn, RequestIdOf(FirstConn), s)
    \/ \E m \in AgentFrames : deliverReply(FirstConn, m)
    \/ StreamRecv(FirstConn)
    \/ StreamPushed(FirstConn)
    \/ StreamEmit(FirstConn)
    \/ \E s \in HubSessions : requestSync(SecondConn, FirstConn, s)
    \/ SyncReply(SecondConn)
    \/ \E s \in Sessions : TTLExpire(s)

SpecReconcile == Init /\ [][NextReconcile]_vars

\* ------------------------------------- properties: reconciling a dropped frame

\* C40 (a dropped frame is reconciled): when the client syncs with the highest
\* msgId it has seen, every frame of the session that the Hub dropped on the
\* client's full queue, whose msgId is below that highest one and whose entry
\* the buffer still holds, is among the messages the sync reads for it.
C40_DroppedFrameSynced ==
    [][(pc[SecondConn] = "idle" /\ pc'[SecondConn] = "sync") =>
          \A i \in 1 .. Len(h_out[FirstConn]) :
              LET r == h_out[FirstConn][i]
              IN ( /\ r.dropped
                   /\ r.frame.msgId > 0
                   /\ r.frame.msgId < lastAckIDRef(FirstConn)
                   /\ r.session = req'[SecondConn].sid
                   /\ \E m \in zset[r.session] : m.id = r.frame.msgId )
                 => \E j \in 1 .. Len(req'[SecondConn].msgs) :
                        req'[SecondConn].msgs[j].id = r.frame.msgId]_vars

\* ------------------------------------------- the reader during a prompt

\* handleMessage, case "ping": the pong with the id of the ping.
handlePing(c, requestID) ==
    /\ pc[c] = "idle"
    /\ h_in < MaxIn
    /\ h_in' = h_in + 1
    /\ sendMessage(c, "", MarshalServerMessage("pong", requestID, 0, Nil, <<>>, 0))
    /\ UNCHANGED <<ctr, zset, now, pc, lastAckID, req, respCh, h_hist, h_win>>
    /\ UNCHANGED h_recv
    /\ UNCHANGED tunnelVars
    /\ UNCHANGED <<agentVars, supVars, buffer>>

\* One client connection whose reader dispatches pings and a prompt. readPump
\* calls handleMessage for one frame at a time, so the reader is either
\* between frames ("idle") or inside handleViaAgentStream. That function
\* returns when `range respCh` ends, which is when the channel is closed;
\* Forward closes it when ctx is done, and handlePrompt passes
\* context.Background(), which never is. So no step leaves the loop.
PromptConn == "c1"

NextPrompt ==
    \/ HandleWebSocket(PromptConn)
    \/ writePump(PromptConn)
    \/ handlePing(PromptConn, RequestIdOf(PromptConn))
    \/ \E s \in HubSessions : handlePrompt(PromptConn, RequestIdOf(PromptConn), s)
    \/ \E m \in AgentFrames : deliverReply(PromptConn, m)
    \/ StreamRecv(PromptConn)
    \/ StreamPushed(PromptConn)
    \/ StreamEmit(PromptConn)
    \/ \E s \in Sessions : TTLExpire(s)

\* The goroutines of the Hub run when they can: the handler takes the frames
\* waiting on its channel, Redis answers, the writer drains the queue. What
\* the client and the Agent send is up to them.
FairPrompt ==
    /\ WF_<<pc, respCh>>(StreamRecv(PromptConn))
    /\ WF_pc(StreamPushed(PromptConn))
    /\ WF_pc(StreamEmit(PromptConn))
    /\ WF_send(writePump(PromptConn))

SpecPrompt == Init /\ [][NextPrompt]_vars /\ FairPrompt

\* ---------------------------------------- properties: the end of a prompt

\* The Hub has handed the client the stream.end or an error of its prompt.
PromptEnded(c) ==
    \E i \in 1 .. Len(h_out[c]) :
        /\ h_out[c][i].frame.type \in {"stream.end", "error"}
        /\ h_out[c][i].frame.id = RequestIdOf(c)

\* C31 (a prompt ends): once the Hub has forwarded the stream.end or an error
\* of a prompt to the client, the reader of the connection eventually leaves
\* the prompt's handler and is ready to dispatch the client's next frame.
C31_PromptEnds == PromptEnded(PromptConn) ~> (pc[PromptConn] = "idle")


\* ------------------------------------- properties: the supervisor's lock

\* While a Start holds Manager.mu no other call touches the table: an
\* instance changes only at the path being started, the pool only at the
\* port reserved for it, and the only call that returns is that Start, or a
\* Start refused by validatePath, which takes no lock and reads no instance.
Serialized ==
    Locked =>
        /\ \A path \in DOMAIN instances :
              instances'[path] # instances[path] => path = spc.path
        /\ \A port \in (DOMAIN portToProject \cup DOMAIN portToProject') :
              (port \in DOMAIN portToProject) # (port \in DOMAIN portToProject')
                 => port = spc.port
        /\ sret' # sret =>
              /\ sret'.op = "Start"
              /\ \/ sret'.path = spc.path /\ spc'.pc = "idle"
                 \/ validatePath(sret'.path) # "nil" /\ sret'.inst = NoInstance

\* An instance is in status starting exactly while a Start of its path holds
\* the lock.
StartingUnderLock ==
    \A path \in DOMAIN instances :
        instances[path].Status = StatusStarting <=> (Locked /\ spc.path = path)

\* The errors of a Start that had launched its worker before it failed.
LaunchedThenFailed == {"timeout", "context canceled"}

ProcPaths == {"/p", "/q"}
ProcMaxInstances == 1
MaxStarts == 3

\* The errors of waitForReady.
WaitErrors == {"timeout waiting for opencode to start", "context canceled"}

ProcReturn(op, path, e, port) == [op |-> op, path |-> path, err |-> e, port |-> port]

\* NewInstance, then the part of Instance.Start before cmd.Start.
NewInstance(path, port) ==
    [Path |-> path, Port |-> port, Status |-> StatusStopped, process |-> FALSE,
     mu |-> "free", child |-> "none", waiter |-> FALSE]

SeqWithout(s, x) == SelectSeq(s, LAMBDA e : e # x)

\* What Instance.Stop makes of an instance once it has i.mu: without a
\* process only the status; with one, the interrupt (or kill), the wait for
\* the exit (or the kill after 5 s), no process and status stopped.
Stopped(i) ==
    IF ~i.process
    THEN [i EXCEPT !.Status = StatusStopped]
    ELSE [i EXCEPT !.Status = StatusStopped, !.process = FALSE, !.child = "exited"]

\* Manager.instances without one path.
Deleted(m, path) == [q \in DOMAIN m \ {path} |-> m[q]]

\* cleanupOldestLocked: the instance with the earliest LastUsed.
Oldest == Head(byLastUsed)
OldestPath == CHOOSE path \in DOMAIN procInstances : procInstances[path] = Oldest

\* Manager.GetOrStart up to waitForReady: under Manager.mu, a running
\* instance is touched and returned; otherwise, the table being full, the
\* oldest instance is stopped and deleted, a port is allocated, the Instance
\* is made and Instance.Start takes i.mu, marks it starting and starts the
\* child (started tells whether cmd.Start succeeds). With the child started
\* the waiter goroutine exists and Start goes on to wait, holding both locks.
GetOrStart(path, started) ==
    /\ holder = NoHolder
    /\ IF /\ path \in DOMAIN procInstances
          /\ insts[procInstances[path]].Status = StatusRunning
       THEN /\ byLastUsed' = Append(SeqWithout(byLastUsed, procInstances[path]),
                                    procInstances[path])
            /\ pret' = ProcReturn("GetOrStart", path, "nil", procInstances[path])
            /\ UNCHANGED <<procInstances, insts, nextPort, holder>>
       ELSE /\ nextPort < BasePort + MaxStarts
            /\ LET full == Cardinality(DOMAIN procInstances) >= ProcMaxInstances
                   kept == IF full
                           THEN [insts EXCEPT ![Oldest] = Stopped(insts[Oldest])]
                           ELSE insts
                   made == NewInstance(path, nextPort)
               IN  /\ full => insts[Oldest].mu = "free"
                   /\ procInstances' = IF full THEN Deleted(procInstances, OldestPath)
                                       ELSE procInstances
                   /\ byLastUsed' = IF full THEN Tail(byLastUsed) ELSE byLastUsed
                   /\ nextPort' = nextPort + 1
                   /\ IF started
                      THEN /\ insts' = kept @@ (nextPort :>
                                  [made EXCEPT !.Status = StatusStarting,
                                               !.process = TRUE, !.mu = "Start",
                                               !.child = "up", !.waiter = TRUE])
                           /\ holder' = [op |-> "GetOrStart", path |-> path,
                                         port |-> nextPort, pc |-> "waitForReady",
                                         ctx |-> "live", err |-> ""]
                           /\ UNCHANGED pret
                      ELSE /\ insts' = kept @@ (nextPort :>
                                  [made EXCEPT !.Status = StatusError])
                           /\ pret' = ProcReturn("GetOrStart", path,
                                                 "failed to start opencode", 0)
                           /\ UNCHANGED holder
    /\ UNCHANGED <<launcher, instances, portToProject, spc, worker, occupied,
                   sret, h_acq, h_probe>>
    /\ UNCHANGED <<hubVars, tunnelVars, agentVars>>

\* The caller's ctx is cancelled while Start waits.
CtxDone ==
    /\ holder.pc = "waitForReady" /\ holder.ctx = "live"
    /\ holder' = [holder EXCEPT !.ctx = "done"]
    /\ UNCHANGED <<procInstances, insts, nextPort, byLastUsed, pret>>
    /\ UNCHANGED <<launcher, instances, portToProject, spc, worker, occupied,
                   sret, h_acq, h_probe>>
    /\ UNCHANGED <<hubVars, tunnelVars, agentVars>>

\* waitForReady answered 200: Start marks the instance running and returns,
\* releasing i.mu; GetOrStart registers the instance and returns it.
waitForReadyOK ==
    /\ holder.pc = "waitForReady"
    /\ insts[holder.port].child = "ready"
    /\ insts' = [insts EXCEPT ![holder.port].Status = StatusRunning,
                              ![holder.port].mu = "free"]
    /\ procInstances' = (holder.path :> holder.port) @@ procInstances
    /\ byLastUsed' =
          Append(IF holder.path \in DOMAIN procInstances
                 THEN SeqWithout(byLastUsed, procInstances[holder.path])
                 ELSE byLastUsed, holder.port)
    /\ pret' = ProcReturn("GetOrStart", holder.path, "nil", holder.port)
    /\ holder' = NoHolder
    /\ UNCHANGED nextPort
    /\ UNCHANGED <<launcher, instances, portToProject, spc, worker, occupied,
                   sret, h_acq, h_probe>>
    /\ UNCHANGED <<hubVars, tunnelVars, agentVars>>

\* waitForReady gives up, the deadline having passed or ctx being done:
\* Start, still holding i.mu, calls i.Stop().
waitForReadyFailed(e) ==
    /\ holder.pc = "waitForReady"
    /\ e = "context canceled" => holder.ctx = "done"
    /\ holder' = [holder EXCEPT !.pc = "Stop", !.err = e]
    /\ UNCHANGED <<procInstances, insts, nextPort, byLastUsed, pret>>
    /\ UNCHANGED <<launcher, instances, portToProject, spc, worker, occupied,
                   sret, h_acq, h_probe>>
    /\ UNCHANGED <<hubVars, tunnelVars, agentVars>>

\* Manager.Stop: under Manager.mu, nothing for a path without instance,
\* else the call of inst.Stop().
ManagerStop(path) ==
    /\ holder = NoHolder
    /\ IF path \notin DOMAIN procInstances
       THEN /\ pret' = ProcReturn("Stop", path, "nil", 0)
            /\ UNCHANGED holder
       ELSE /\ holder' = [op |-> "Stop", path |-> path,
                          port |-> procInstances[path], pc |-> "Stop",
                          ctx |-> "live", err |-> ""]
            /\ UNCHANGED pret
    /\ UNCHANGED <<procInstances, insts, nextPort, byLastUsed>>
    /\ UNCHANGED <<launcher, instances, portToProject, spc, worker, occupied,
                   sret, h_acq, h_probe>>
    /\ UNCHANGED <<hubVars, tunnelVars, agentVars>>

\* Instance.Stop, called by Manager.Stop or by Instance.Start after a failed
\* wait: it takes i.mu (sync.RWMutex, not reentrant), stops the child and
\* returns. Manager.Stop then deletes the instance; Instance.Start returns
\* the error of the wait, its deferred Unlock releases i.mu, and GetOrStart
\* returns the error without registering the instance.
InstanceStop ==
    /\ holder.pc = "Stop"
    /\ insts[holder.port].mu = "free"
    /\ IF holder.op = "Stop"
       THEN /\ insts' = [insts EXCEPT ![holder.port] = Stopped(@)]
            /\ procInstances' = Deleted(procInstances, holder.path)
            /\ byLastUsed' = SeqWithout(byLastUsed, holder.port)
            /\ pret' = ProcReturn("Stop", holder.path, "nil", 0)
       ELSE /\ insts' = [insts EXCEPT ![holder.port] = Stopped(@)]
            /\ pret' = ProcReturn("GetOrStart", holder.path, holder.err, 0)
            /\ UNCHANGED <<procInstances, byLastUsed>>
    /\ holder' = NoHolder
    /\ UNCHANGED nextPort
    /\ UNCHANGED <<launcher, instances, portToProject, spc, worker, occupied,
                   sret, h_acq, h_probe>>
    /\ UNCHANGED <<hubVars, tunnelVars, agentVars>>

\* Manager.List, under the read lock.
List ==
    /\ holder = NoHolder
    /\ pret' = ProcReturn("List", "", "nil", Cardinality(DOMAIN procInstances))
    /\ UNCHANGED <<procInstances, insts, nextPort, byLastUsed, holder>>
    /\ UNCHANGED <<launcher, instances, portToProject, spc, worker, occupied,
                   sret, h_acq, h_probe>>
    /\ UNCHANGED <<hubVars, tunnelVars, agentVars>>

\* Manager.Cleanup, under Manager.mu: the instances found idle (the first n
\* in the order of LastUsed) are stopped and deleted.
Cleanup(n) ==
    /\ holder = NoHolder
    /\ n <= Len(byLastUsed)
    /\ LET idle == {byLastUsed[k] : k \in 1 .. n}
       IN  /\ \A port \in idle : insts[port].mu = "free"
           /\ insts' = [port \in DOMAIN insts |->
                           IF port \in idle THEN Stopped(insts[port])
                           ELSE insts[port]]
           /\ procInstances' = [path \in {q \in DOMAIN procInstances :
                                             procInstances[q] \notin idle}
                                   |-> procInstances[path]]
           /\ byLastUsed' = SubSeq(byLastUsed, n + 1, Len(byLastUsed))
    /\ pret' = ProcReturn("Cleanup", "", "nil", n)
    /\ UNCHANGED <<nextPort, holder>>
    /\ UNCHANGED <<launcher, instances, portToProject, spc, worker, occupied,
                   sret, h_acq, h_probe>>
    /\ UNCHANGED <<hubVars, tunnelVars, agentVars>>

\* The child: it starts to answer its health endpoint, and it exits (by
\* itself, or killed by exec.CommandContext when ctx is done).
ChildReady(port) ==
    /\ port \in DOMAIN insts /\ insts[port].child = "up"
    /\ insts' = [insts EXCEPT ![port].child = "ready"]
    /\ UNCHANGED <<procInstances, nextPort, byLastUsed, holder, pret>>
    /\ UNCHANGED <<launcher, instances, portToProject, spc, worker, occupied,
                   sret, h_acq, h_probe>>
    /\ UNCHANGED <<hubVars, tunnelVars, agentVars>>

ChildExit(port) ==
    /\ port \in DOMAIN insts /\ insts[port].child \in {"up", "ready"}
    /\ insts' = [insts EXCEPT ![port].child = "exited"]
    /\ UNCHANGED <<procInstances, nextPort, byLastUsed, holder, pret>>
    /\ UNCHANGED <<launcher, instances, portToProject, spc, worker, occupied,
                   sret, h_acq, h_probe>>
    /\ UNCHANGED <<hubVars, tunnelVars, agentVars>>

\* The goroutine Instance.Start leaves behind: after cmd.Wait it takes i.mu
\* and marks the instance stopped, unless it is stopping.
Waiter(port) ==
    /\ port \in DOMAIN insts
    /\ insts[port].waiter /\ insts[port].child = "exited"
    /\ insts[port].mu = "free"
    /\ insts' = [insts EXCEPT ![port].waiter = FALSE,
                              ![port].Status = IF @ # StatusStopping
                                               THEN StatusStopped ELSE @]
    /\ UNCHANGED <<procInstances, nextPort, byLastUsed, holder, pret>>
    /\ UNCHANGED <<launcher, instances, portToProject, spc, worker, occupied,
                   sret, h_acq, h_probe>>
    /\ UNCHANGED <<hubVars, tunnelVars, agentVars>>

ProcPorts == BasePort .. (BasePort + MaxStarts - 1)

\* The child-process supervisor under its callers, with children that come
\* up and exit.
NextProcmgr ==
    \/ \E path \in ProcPaths, started \in BOOLEAN : GetOrStart(path, started)
    \/ CtxDone
    \/ waitForReadyOK
    \/ \E e \in WaitErrors : waitForReadyFailed(e)
    \/ \E path \in ProcPaths : ManagerStop(path)
    \/ InstanceStop
    \/ List
    \/ \E n \in 1 .. ProcMaxInstances : Cleanup(n)
    \/ \E port \in ProcPorts : ChildReady(port)
    \/ \E port \in ProcPorts : ChildExit(port)
    \/ \E port \in ProcPorts : Waiter(port)

\* A call that holds Manager.mu goes on when it can: the wait ends (ready,
\* deadline or cancellation) and a Stop that can take i.mu takes it.
FairProcmgr ==
    /\ WF_holder(waitForReadyOK \/ \E e \in WaitErrors : waitForReadyFailed(e))
    /\ WF_holder(InstanceStop)

SpecProcmgr == Init /\ [][NextProcmgr]_vars /\ FairProcmgr

\* C37: an Instance.Start whose health wait has timed out or was cancelled
\* returns: GetOrStart gives the error to its caller and Manager.mu is free
\* again, with the child stopped and the instance not running.
C37_FailedStartReturns ==
    (holder.op = "GetOrStart" /\ holder.pc = "Stop")
        ~> (/\ holder = NoHolder
            /\ pret.op = "GetOrStart" /\ pret.err \in WaitErrors)

====
